---- MODULE Spec2Model ----
(***************************************************************************)
(* A model of file-meta-utils: the TIFF codec (tiff.js), the Exif adapter  *)
(* (exif.js), the JPEG segment codec (jpg.js) and the PNG chunk codec      *)
(* (png.js).                                                               *)
(*                                                                         *)
(* A Uint8Array is a sequence of 0..255; the byte at offset p is element   *)
(* p + 1.  A call that throws returns Err, a call that returns v returns   *)
(* Ok(v).  Numbers are 32-bit integers in the model: the inputs keep      *)
(* every unsigned 32-bit field below 2^31.                                 *)
(***************************************************************************)
EXTENDS Integers, Sequences, FiniteSets, TLC

VARIABLES
    tiffPc,      \* position of the TIFF run: "input", "built", "walking", "decoded",
                 \* "encoded", "redecoded", "reencoded"
    tiffData,    \* the Uint8Array handed to decodeTiff
    tiffDecoded, \* result of decodeTiff(tiffData)
    tiffEncoded, \* result of encodeTiff(tiffDecoded)
    tiffAgain,   \* result of decodeTiff(tiffEncoded)
    tiffReencoded, \* result of encodeTiff(tiffAgain)
    walkPtr,     \* ptr of readAllIfds while decodeTiff walks the IFD chain
    walkIfds,    \* ifds of readAllIfds: the IFDs pushed so far
    tiffObj,     \* a Tiff object a caller built and hands to encodeTiff
    jpgPc,       \* position of the JPEG run: "input", "decoded", "encoded"
    jpgData,     \* the Uint8Array handed to decodeJpg
    jpgDecoded,  \* result of decodeJpg(jpgData)
    jpgEncoded,  \* result of encodeJpg(jpgDecoded)
    exifPc,      \* position of the Exif run: "input", "decoded"
    exifData,    \* the Uint8Array handed to decodeExif
    exifDecoded, \* result of decodeExif(exifData)
    jpgObj,      \* the Jpg object a program holds and updates in place
    exifCall,    \* the last call made on jpgObj, with what it was given and did
    exifCalls,   \* number of updateJpgExif calls made on jpgObj
    pngPc,       \* position of the PNG run: "input", "decoded", "encoded"
    pngData,     \* the Uint8Array handed to decodePng
    pngDecoded,  \* result of decodePng(pngData)
    pngEncoded,  \* result of encodePng(pngDecoded)
    pngStart,    \* the Png object a program starts from: decodePng of a file
    pngObj,      \* the Png object the program holds and updates in place
    textCall,    \* the last call made on pngObj, with what it was given and did
    textCalls,   \* number of setText calls made on pngObj
    textSet      \* the pairs <<key, value>> of the last setText of every key set

tiffVars ==
    <<tiffPc, tiffData, tiffDecoded, tiffEncoded, tiffAgain, tiffReencoded,
      walkPtr, walkIfds, tiffObj>>

jpgVars == <<jpgPc, jpgData, jpgDecoded, jpgEncoded>>

exifVars == <<exifPc, exifData, exifDecoded>>

objVars == <<jpgObj, exifCall, exifCalls>>

pngVars == <<pngPc, pngData, pngDecoded, pngEncoded>>

textVars == <<pngStart, pngObj, textCall, textCalls, textSet>>

vars == <<tiffVars, jpgVars, exifVars, objVars, pngVars, textVars>>

----------------------------------------------------------------------------
(* Results of calls.                                                       *)

Err == [ok |-> FALSE]

Ok(v) == [ok |-> TRUE, val |-> v]

----------------------------------------------------------------------------
(* DataView and Uint8Array accessors.                                      *)

\* DataView bounds check: an access of n bytes at offset p throws a
\* RangeError unless it lies inside the view
InRange(data, p, n) == p >= 0 /\ p + n <= Len(data)

\* data[p] of a Uint8Array, 256 standing for undefined (index out of range)
Undefined == 256

ByteAt(data, p) == IF p >= 0 /\ p < Len(data) THEN data[p + 1] ELSE Undefined

\* Uint8Array.prototype.subarray(begin, end) for begin, end >= 0: both ends
\* are clamped to the length, an inverted range is empty
Subarray(data, begin, end) ==
    LET b == IF begin > Len(data) THEN Len(data) ELSE begin
        e == IF end > Len(data) THEN Len(data) ELSE end
    IN  IF e <= b THEN <<>> ELSE SubSeq(data, b + 1, e)

\* DataView.getUint16 / getUint32 / getInt8 / getInt16 / getInt32 of bytes in range
getUint16(data, p, littleEndian) ==
    IF littleEndian THEN data[p + 1] + (256 * data[p + 2])
    ELSE (256 * data[p + 1]) + data[p + 2]

getUint32(data, p, littleEndian) ==
    IF littleEndian
    THEN data[p + 1] + (256 * data[p + 2]) + (65536 * data[p + 3]) + (16777216 * data[p + 4])
    ELSE (16777216 * data[p + 1]) + (65536 * data[p + 2]) + (256 * data[p + 3]) + data[p + 4]

getInt8(data, p) == IF data[p + 1] >= 128 THEN data[p + 1] - 256 ELSE data[p + 1]

getInt16(data, p, littleEndian) ==
    LET u == getUint16(data, p, littleEndian)
    IN  IF u >= 32768 THEN u - 65536 ELSE u

getInt32(data, p, littleEndian) ==
    LET hi == IF littleEndian THEN data[p + 4] ELSE data[p + 1]
        lo == IF littleEndian
              THEN data[p + 1] + (256 * data[p + 2]) + (65536 * data[p + 3])
              ELSE (65536 * data[p + 2]) + (256 * data[p + 3]) + data[p + 4]
    IN  ((IF hi >= 128 THEN hi - 256 ELSE hi) * 16777216) + lo

\* The bytes DataView.setUint16 / setInt16 and setUint32 / setInt32 store for
\* a number v: v modulo 2^16, 2^32 in the given byte order
BytesOf16(v, littleEndian) ==
    LET x == v % 65536
    IN  IF littleEndian THEN <<x % 256, x \div 256>> ELSE <<x \div 256, x % 256>>

BytesOf32(v, littleEndian) ==
    LET b0 == v % 256
        b1 == (v \div 256) % 256
        b2 == (v \div 65536) % 256
        b3 == (v \div 16777216) % 256
    IN  IF littleEndian THEN <<b0, b1, b2, b3>> ELSE <<b3, b2, b1, b0>>

Reverse(s) == [i \in 1..Len(s) |-> s[Len(s) + 1 - i]]

\* Storing the bytes bs at offset p of buf (all stores of one loop of setUint8
\* calls, or one multi-byte DataView store); no store, no range check
Store(buf, p, bs) ==
    IF Len(bs) = 0 THEN Ok(buf)
    ELSE IF ~InRange(buf, p, Len(bs)) THEN Err
    ELSE Ok(SubSeq(buf, 1, p) \o bs \o SubSeq(buf, p + Len(bs) + 1, Len(buf)))

Zeros(n) == SubSeq([i \in 1..n |-> 0], 1, n)

----------------------------------------------------------------------------
(* IEEE-754 values.  A binary32 value is the sequence of the 4 bytes of    *)
(* its bit pattern, most significant first, a binary64 value the 8 bytes   *)
(* of its pattern; every NaN is the one quiet NaN.                         *)

NaN32 == <<127, 192, 0, 0>>

NaN64 == <<127, 248, 0, 0, 0, 0, 0, 0>>

F32Exp(f) == ((f[1] % 128) * 2) + (f[2] \div 128)

F32Mant(f) == ((f[2] % 128) * 65536) + (f[3] * 256) + f[4]

\* DataView.getFloat32 of bytes in range
getFloat32(data, p, littleEndian) ==
    LET raw == [i \in 1..4 |-> data[p + i]]
        f == IF littleEndian THEN Reverse(raw) ELSE raw
    IN  IF F32Exp(f) = 255 /\ F32Mant(f) # 0 THEN NaN32 ELSE f

Pow2(k) == 2 ^ k

\* position of the highest set bit of m, 1 <= m < 2^23
HighBit(m) == CHOOSE k \in 0..22 : Pow2(k) <= m /\ m < Pow2(k + 1)

\* The binary64 pattern with sign s, biased exponent e (11 bits) and the
\* 23 leading fraction bits m
F64Pattern(s, e, m) ==
    <<(s * 128) + (e \div 16),
      ((e % 16) * 16) + (m \div 524288),
      (m % 524288) \div 2048,
      (m % 2048) \div 8,
      (m % 8) * 32,
      0, 0, 0>>

\* The number a binary32 value denotes, as the binary64 value a Float64Array
\* element holds (the store of a getFloat32 result into a Float64Array)
F32ToF64(f) ==
    LET s == f[1] \div 128
        e == F32Exp(f)
        m == F32Mant(f)
    IN  IF e = 255 THEN (IF m # 0 THEN NaN64 ELSE F64Pattern(s, 2047, 0))
        ELSE IF e = 0 /\ m = 0 THEN F64Pattern(s, 0, 0)
        ELSE IF e = 0
             THEN LET k == HighBit(m)
                  IN  F64Pattern(s, 874 + k, (m * Pow2(23 - k)) - 8388608)
        ELSE F64Pattern(s, e + 896, m)

----------------------------------------------------------------------------
(* utils.decoder and utils.encoder: the platform's UTF-8 TextDecoder and   *)
(* TextEncoder.  A string is the sequence of its UTF-16 code units.        *)

ReplacementChar == 65533

CodeUnits(cp) ==
    IF cp < 65536 THEN <<cp>>
    ELSE <<55296 + ((cp - 65536) \div 1024), 56320 + ((cp - 65536) % 1024)>>

\* The UTF-8 decoder's state machine: cp the code point so far, need / seen
\* the continuation bytes needed and seen, lo..hi the range of the next one
RECURSIVE Utf8Decode(_, _, _, _, _, _, _)
Utf8Decode(b, i, cp, need, seen, lo, hi) ==
    IF i > Len(b) THEN (IF need # 0 THEN <<ReplacementChar>> ELSE <<>>)
    ELSE LET x == b[i] IN
      IF need = 0 THEN
        IF x < 128 THEN <<x>> \o Utf8Decode(b, i + 1, 0, 0, 0, 128, 191)
        ELSE IF x >= 194 /\ x <= 223
          THEN Utf8Decode(b, i + 1, (x % 32), 1, 0, 128, 191)
        ELSE IF x >= 224 /\ x <= 239
          THEN Utf8Decode(b, i + 1, x % 16, 2, 0,
                          IF x = 224 THEN 160 ELSE 128, IF x = 237 THEN 159 ELSE 191)
        ELSE IF x >= 240 /\ x <= 244
          THEN Utf8Decode(b, i + 1, x % 8, 3, 0,
                          IF x = 240 THEN 144 ELSE 128, IF x = 244 THEN 143 ELSE 191)
        ELSE <<ReplacementChar>> \o Utf8Decode(b, i + 1, 0, 0, 0, 128, 191)
      ELSE IF x < lo \/ x > hi
        THEN <<ReplacementChar>> \o Utf8Decode(b, i, 0, 0, 0, 128, 191)
      ELSE IF seen + 1 = need
        THEN CodeUnits((cp * 64) + (x % 64)) \o Utf8Decode(b, i + 1, 0, 0, 0, 128, 191)
      ELSE Utf8Decode(b, i + 1, (cp * 64) + (x % 64), need, seen + 1, 128, 191)

\* utils.decoder.decode(bytes): UTF-8, a leading byte order mark dropped
decode(b) ==
    IF Len(b) >= 3 /\ b[1] = 239 /\ b[2] = 187 /\ b[3] = 191
    THEN Utf8Decode(b, 4, 0, 0, 0, 128, 191)
    ELSE Utf8Decode(b, 1, 0, 0, 0, 128, 191)

\* utils.encoder.encode(string): UTF-8, an unpaired surrogate as U+FFFD
RECURSIVE encode(_)
encode(s) ==
    IF Len(s) = 0 THEN <<>>
    ELSE LET c == s[1] IN
      IF c < 128 THEN <<c>> \o encode(Tail(s))
      ELSE IF c < 2048
        THEN <<192 + (c \div 64), 128 + (c % 64)>> \o encode(Tail(s))
      ELSE IF c >= 55296 /\ c <= 56319 /\ Len(s) >= 2 /\ s[2] >= 56320 /\ s[2] <= 57343
        THEN LET cp == 65536 + ((c - 55296) * 1024) + (s[2] - 56320)
             IN  <<240 + (cp \div 262144), 128 + ((cp \div 4096) % 64),
                   128 + ((cp \div 64) % 64), 128 + (cp % 64)>> \o encode(Tail(Tail(s)))
      ELSE IF c >= 55296 /\ c <= 57343
        THEN <<239, 191, 189>> \o encode(Tail(s))
      ELSE <<224 + (c \div 4096), 128 + ((c \div 64) % 64), 128 + (c % 64)>> \o encode(Tail(s))

\* utils.hasOwn(record, field): the record has a property of its own of that name
hasOwn(exif, field) == field \in DOMAIN exif

----------------------------------------------------------------------------
(* tiff.js: the data model.                                                *)
(*   Tiff     [ifds |-> sequence of Ifd, littleEndian |-> BOOLEAN]         *)
(*   Ifd      [entries |-> sequence of IfdEntry]                           *)
(*   IfdEntry [tag |-> u16, type |-> u16, value |-> IfdEntryValue]         *)
(*   IfdEntryValue  [elems |-> the elements of the typed array, the pairs  *)
(*                  of a rational array or the code units of a string],    *)
(*                  or an Ifd                                              *)

UINT8 == 1
ASCII == 2
UINT16 == 3
UINT32 == 4
URATIONAL == 5
INT8 == 6
UNDEFINED8 == 7
INT16 == 8
INT32 == 9
SRATIONAL == 10
SINGLE == 11
DOUBLE == 12

KnownType(type) == type \in UINT8..DOUBLE

\* getTypeSize(type) for a known type; it throws for any other
getTypeSize(type) ==
    CASE type = UINT8 -> 1
      [] type = ASCII -> 1
      [] type = UINT16 -> 2
      [] type = UINT32 -> 4
      [] type = URATIONAL -> 8
      [] type = INT8 -> 1
      [] type = UNDEFINED8 -> 1
      [] type = INT16 -> 2
      [] type = INT32 -> 4
      [] type = SRATIONAL -> 8
      [] type = SINGLE -> 4
      [] type = DOUBLE -> 8

----------------------------------------------------------------------------
(* tiff.js: decodeIfd and decodeTiff.                                      *)

\* One element of readEntryValue's loop, read at offset q
readElement(data, q, type, littleEndian) ==
    CASE type \in {UINT8, UNDEFINED8} -> data[q + 1]
      [] type = UINT16 -> getUint16(data, q, littleEndian)
      [] type = UINT32 -> getUint32(data, q, littleEndian)
      [] type = URATIONAL ->
            <<getUint32(data, q, littleEndian), getUint32(data, q + 4, littleEndian)>>
      [] type = INT8 -> getInt8(data, q)
      [] type = INT16 -> getInt16(data, q, littleEndian)
      [] type = INT32 -> getInt32(data, q, littleEndian)
         \* getUint32 stored into an Int32Array: the store wraps the number
         \* modulo 2^32 into the signed range
      [] type = SRATIONAL ->
            <<getInt32(data, q, littleEndian), getInt32(data, q + 4, littleEndian)>>
      [] type = SINGLE -> getFloat32(data, q, littleEndian)
         \* getFloat32, not getFloat64, stored into a Float64Array
      [] type = DOUBLE -> F32ToF64(getFloat32(data, q, littleEndian))

\* The bytes one element's reads touch: a DOUBLE is read with getFloat32
readWidth(type) == IF type = DOUBLE THEN 4 ELSE getTypeSize(type)

readEntryValue(data, dataPtr, type, count, littleEndian) ==
    IF type = ASCII
    THEN \* Count includes the null terminator; subarray never throws
         Ok([elems |-> decode(Subarray(data, dataPtr, dataPtr + count - 1))])
    ELSE IF count = 0 THEN Ok([elems |-> <<>>])
    ELSE IF ~InRange(data, dataPtr + (getTypeSize(type) * (count - 1)), readWidth(type))
         THEN Err
    ELSE Ok([elems |-> [i \in 1..count |->
                readElement(data, dataPtr + (getTypeSize(type) * (i - 1)),
                            type, littleEndian)]])

\* The entry readEntry returns once readEntryValue has returned value
EntryOf(tag, type, value) ==
    IF ~value.ok THEN Err ELSE Ok([tag |-> tag, type |-> type, value |-> value.val])

\* readEntry after it has read the entry's tag, type and count
readEntryOf(data, ptr, littleEndian, tag, type, count) ==
    IF ~KnownType(type) THEN Err
    ELSE IF getTypeSize(type) * count > 4 /\ ~InRange(data, ptr + 8, 4) THEN Err
    ELSE EntryOf(tag, type,
                 readEntryValue(data,
                                IF getTypeSize(type) * count <= 4 THEN ptr + 8
                                ELSE getUint32(data, ptr + 8, littleEndian),
                                type, count, littleEndian))

readEntry(data, ptr, littleEndian) ==
    IF ~InRange(data, ptr, 8) THEN Err
    ELSE readEntryOf(data, ptr, littleEndian,
                     getUint16(data, ptr, littleEndian),
                     getUint16(data, ptr + 2, littleEndian),
                     getUint32(data, ptr + 4, littleEndian))

\* readEntries' loop from entry i on, the entries read so far in acc
RECURSIVE readEntriesFrom(_, _, _, _, _, _)

\* The loop once readEntry has returned entry for entry i
readEntriesNext(data, ptr, littleEndian, numEntries, i, acc, entry) ==
    IF ~entry.ok THEN Err
    ELSE readEntriesFrom(data, ptr + 12, littleEndian, numEntries, i + 1,
                         Append(acc, entry.val))

readEntriesFrom(data, ptr, littleEndian, numEntries, i, acc) ==
    IF i >= numEntries THEN Ok(acc)
    ELSE readEntriesNext(data, ptr, littleEndian, numEntries, i, acc,
                         readEntry(data, ptr, littleEndian))

readEntries(data, ptr, littleEndian) ==
    IF ~InRange(data, ptr, 2) THEN Err
    ELSE readEntriesFrom(data, ptr + 2, littleEndian,
                         getUint16(data, ptr, littleEndian), 0, <<>>)

IfdOf(entries) == IF ~entries.ok THEN Err ELSE Ok([entries |-> entries.val])

decodeIfd(data, ptr, littleEndian) == IfdOf(readEntries(data, ptr, littleEndian))

\* readEndianness: "little", "big", or "throws"
readEndianness(data) ==
    IF ByteAt(data, 0) = 73 /\ ByteAt(data, 1) = 73
       /\ ByteAt(data, 2) = 42 /\ ByteAt(data, 3) = 0 THEN "little"
    ELSE IF ByteAt(data, 0) = 77 /\ ByteAt(data, 1) = 77
            /\ ByteAt(data, 2) = 0 /\ ByteAt(data, 3) = 42 THEN "big"
    ELSE "throws"

\* The call never returns: the walk over the next-IFD offsets is in a cycle
Loops == [ok |-> FALSE, loops |-> TRUE]

\* readAllIfds' while loop at offset ptr with the IFDs read so far.  A walk
\* that has read more IFDs than the buffer has offsets has read one offset
\* twice, and repeats from there for ever.
RECURSIVE readAllIfdsFrom(_, _, _, _)

\* The loop once decodeIfd has returned ifd for the IFD at ptr
readAllIfdsNext(data, ptr, littleEndian, ifds, ifd) ==
    IF ~ifd.ok THEN Err
    ELSE IF ~InRange(data, ptr + 2 + (Len(ifd.val.entries) * 12), 4) THEN Err
    ELSE readAllIfdsFrom(data,
                         getUint32(data, ptr + 2 + (Len(ifd.val.entries) * 12),
                                   littleEndian),
                         littleEndian, Append(ifds, ifd.val))

readAllIfdsFrom(data, ptr, littleEndian, ifds) ==
    IF ptr = 0 THEN Ok(ifds)
    ELSE IF Len(ifds) > Len(data) THEN Loops
    ELSE readAllIfdsNext(data, ptr, littleEndian, ifds,
                         decodeIfd(data, ptr, littleEndian))

readAllIfds(data, littleEndian) ==
    IF ~InRange(data, 4, 4) THEN Err
    ELSE readAllIfdsFrom(data, getUint32(data, 4, littleEndian), littleEndian, <<>>)

TiffOf(ifds, littleEndian) ==
    IF ~ifds.ok THEN ifds ELSE Ok([ifds |-> ifds.val, littleEndian |-> littleEndian])

\* decodeTiff once readEndianness has returned order
decodeTiffAs(data, order) ==
    IF order = "throws" THEN Err
    ELSE TiffOf(readAllIfds(data, order = "little"), order = "little")

decodeTiff(data) == decodeTiffAs(data, readEndianness(data))

----------------------------------------------------------------------------
(* tiff.js: getEncodedIfdSize and encodeTiff.                              *)

ifdEntryPointsToIfd(entry) ==
    entry.type = UINT32 /\ "entries" \in DOMAIN entry.value

\* getEncodedIfdSize(ifd) as <<front, back>>; getTypeSize throws for an
\* entry of unknown type that is not ASCII
RECURSIVE getEncodedIfdSize(_)

\* The back size of an entry that points to an IFD of size child
ChildSize(child) == IF ~child.ok THEN Err ELSE Ok(child.val[1] + child.val[2])

EntryBackSize(entry) ==
    IF ifdEntryPointsToIfd(entry) THEN ChildSize(getEncodedIfdSize(entry.value))
    ELSE IF entry.type # ASCII /\ ~KnownType(entry.type) THEN Err
    ELSE LET dataLength == IF entry.type = ASCII THEN Len(entry.value.elems) + 1
                           ELSE getTypeSize(entry.type) * Len(entry.value.elems)
         IN  Ok(IF dataLength > 4 THEN dataLength ELSE 0)

AddBack(here, rest) == IF ~here.ok \/ ~rest.ok THEN Err ELSE Ok(here.val + rest.val)

RECURSIVE SumBackSizes(_, _)
SumBackSizes(entries, i) ==
    IF i > Len(entries) THEN Ok(0)
    ELSE AddBack(EntryBackSize(entries[i]), SumBackSizes(entries, i + 1))

FrontAndBack(ifd, back) ==
    IF ~back.ok THEN Err ELSE Ok(<<6 + (12 * Len(ifd.entries)), back.val>>)

getEncodedIfdSize(ifd) == FrontAndBack(ifd, SumBackSizes(ifd.entries, 1))

\* The bytes of the elements of a value, element after element
Flatten(elems, width, ElemBytes(_)) ==
    [i \in 1..(Len(elems) * width) |->
        ElemBytes(elems[((i - 1) \div width) + 1])[((i - 1) % width) + 1]]

U8Bytes(v) == <<v % 256>>

\* The bytes writeEntryValue's loop stores for a value of a known type.
\* setInt16, setInt32, setFloat32 and setFloat64 are called without the
\* littleEndian argument and so store big-endian.
ValueBytes(type, elems, littleEndian) ==
    CASE type \in {UINT8, UNDEFINED8, INT8} -> Flatten(elems, 1, U8Bytes)
         \* the code units' low bytes, then the null terminator
      [] type = ASCII -> Flatten(elems, 1, U8Bytes) \o <<0>>
      [] type = UINT16 -> Flatten(elems, 2, LAMBDA v : BytesOf16(v, littleEndian))
      [] type = UINT32 -> Flatten(elems, 4, LAMBDA v : BytesOf32(v, littleEndian))
      [] type \in {URATIONAL, SRATIONAL} ->
            Flatten(elems, 8, LAMBDA v : BytesOf32(v[1], littleEndian)
                                         \o BytesOf32(v[2], littleEndian))
      [] type = INT16 -> Flatten(elems, 2, LAMBDA v : BytesOf16(v, FALSE))
      [] type = INT32 -> Flatten(elems, 4, LAMBDA v : BytesOf32(v, FALSE))
      [] type = SINGLE -> Flatten(elems, 4, LAMBDA v : v)
      [] type = DOUBLE -> Flatten(elems, 8, LAMBDA v : v)

\* writeEntryValue(dataPtr, type, value) on the buffer buf
writeEntryValue(buf, dataPtr, type, value, littleEndian) ==
    IF ~KnownType(type) THEN Err
    ELSE Store(buf, dataPtr, ValueBytes(type, value.elems, littleEndian))

\* The encoder's state is [ok, buf, backPtr]: the result buffer and the back
\* cursor, or Err once a store or getTypeSize has thrown.
Stored(st, r) == IF r.ok THEN [st EXCEPT !.buf = r.val] ELSE Err

StoreIn(st, p, bs) == IF ~st.ok THEN Err ELSE Stored(st, Store(st.buf, p, bs))

SetBackPtr(st, backPtr) == IF ~st.ok THEN Err ELSE [st EXCEPT !.backPtr = backPtr]

StoreValue(st, dataPtr, entry, littleEndian) ==
    IF ~st.ok THEN Err
    ELSE Stored(st, writeEntryValue(st.buf, dataPtr, entry.type, entry.value,
                                    littleEndian))

RECURSIVE writeIfd(_, _, _, _)

\* The branch of writeIfd's loop for an entry that points to an IFD of size
\* size; its record is at ptr, st has its tag and type, initialBackPtr is
\* backPtr as the branch is entered
writeChildIfd(st, entry, ptr, littleEndian, initialBackPtr, size) ==
    IF ~size.ok THEN Err
    ELSE SetBackPtr(
           writeIfd(SetBackPtr(StoreIn(st, ptr + 4,
                                       BytesOf32(1, littleEndian)
                                       \o BytesOf32(initialBackPtr, littleEndian)),
                               initialBackPtr + size.val[1]),
                    entry.value, initialBackPtr, littleEndian),
           initialBackPtr + size.val[1] + size.val[2])

\* The other branch, for a value of count elements
writeValue(st, entry, ptr, littleEndian, backPtr, count) ==
    IF ~KnownType(entry.type) THEN Err
    ELSE IF count * getTypeSize(entry.type) <= 4
    THEN StoreValue(StoreIn(st, ptr + 4, BytesOf32(count, littleEndian)),
                    ptr + 8, entry, littleEndian)
    ELSE SetBackPtr(
           StoreValue(StoreIn(st, ptr + 4, BytesOf32(count, littleEndian)
                                           \o BytesOf32(backPtr, littleEndian)),
                      backPtr, entry, littleEndian),
           backPtr + (count * getTypeSize(entry.type)))

\* The body of writeIfd's loop for one entry whose 12-byte record is at ptr
writeEntry(st, entry, ptr, littleEndian) ==
    IF ifdEntryPointsToIfd(entry)
    THEN writeChildIfd(StoreIn(st, ptr, BytesOf16(entry.tag, littleEndian)
                                        \o BytesOf16(entry.type, littleEndian)),
                       entry, ptr, littleEndian, st.backPtr,
                       getEncodedIfdSize(entry.value))
    ELSE writeValue(StoreIn(st, ptr, BytesOf16(entry.tag, littleEndian)
                                     \o BytesOf16(entry.type, littleEndian)),
                    entry, ptr, littleEndian, st.backPtr,
                    Len(entry.value.elems) + (IF entry.tag = ASCII THEN 1 ELSE 0))

\* writeIfd's loop from entry i on, the record of entry i at ptr
RECURSIVE writeEntriesFrom(_, _, _, _, _)
writeEntriesFrom(st, entries, i, ptr, littleEndian) ==
    IF ~st.ok THEN Err
    ELSE IF i > Len(entries) THEN st
    ELSE writeEntriesFrom(writeEntry(st, entries[i], ptr, littleEndian),
                          entries, i + 1, ptr + 12, littleEndian)

\* writeIfd(ifd, ptr) on the state st; it returns IfdEnd(ifd, ptr)
writeIfd(st, ifd, ptr, littleEndian) ==
    writeEntriesFrom(StoreIn(st, ptr, BytesOf16(Len(ifd.entries), littleEndian)),
                     ifd.entries, 1, ptr + 2, littleEndian)

IfdEnd(ifd, ptr) == ptr + 2 + (12 * Len(ifd.entries))

AddSizes(here, rest) ==
    IF ~here.ok \/ ~rest.ok THEN Err
    ELSE Ok(<<here.val[1] + rest.val[1], here.val[2] + rest.val[2]>>)

\* The sums of encodeTiff's first loop over ifds[i..]: <<front, back>>
RECURSIVE SumIfdSizes(_, _)
SumIfdSizes(ifds, i) ==
    IF i > Len(ifds) THEN Ok(<<0, 0>>)
    ELSE AddSizes(getEncodedIfdSize(ifds[i]), SumIfdSizes(ifds, i + 1))

\* encodeTiff's second loop from IFD i on, frontPtr at the IFD's entry count;
\* the next IFD offset is immediately after each IFD
RECURSIVE writeIfdsFrom(_, _, _, _, _)
writeIfdsFrom(st, ifds, i, frontPtr, littleEndian) ==
    IF ~st.ok THEN Err
    ELSE IF i > Len(ifds) THEN st
    ELSE writeIfdsFrom(StoreIn(writeIfd(st, ifds[i], frontPtr, littleEndian),
                               IfdEnd(ifds[i], frontPtr),
                               BytesOf32(IfdEnd(ifds[i], frontPtr) + 4, littleEndian)),
                       ifds, i + 1, IfdEnd(ifds[i], frontPtr) + 4, littleEndian)

\* The byte order marker
\* A marker with the two orders exchanged
ByteOrderMarkSwapped(littleEndian) ==
    IF littleEndian THEN <<77, 77, 0, 42>> ELSE <<73, 73, 42, 0>>

ByteOrderMark(littleEndian) ==
    IF littleEndian THEN <<73, 73, 42, 0>> ELSE <<77, 77, 0, 42>>

\* An encodeTiff that leaves the next-IFD offset of the last IFD as the loop
\* wrote it
encodeTiffOpenEnded(tiff, sizes) ==
    IF ~sizes.ok THEN Err
    ELSE writeIfdsFrom([ok |-> TRUE,
                        buf |-> ByteOrderMark(tiff.littleEndian)
                                \o BytesOf32(8, tiff.littleEndian)
                                \o Zeros(sizes.val[1] + sizes.val[2]),
                        backPtr |-> 8 + sizes.val[1]],
                       tiff.ifds, 1, 8, tiff.littleEndian)

\* encodeTiff(tiff) once the first loop has summed sizes = <<front, back>>:
\* the final state of the encoder.  The last IFD offset is always 0, and
\* frontPtr ends at totalFront
encodeTiffWith(tiff, sizes) ==
    IF ~sizes.ok THEN Err
    ELSE StoreIn(writeIfdsFrom([ok |-> TRUE,
                                buf |-> ByteOrderMark(tiff.littleEndian)
                                        \o BytesOf32(8, tiff.littleEndian)
                                        \o Zeros(sizes.val[1] + sizes.val[2]),
                                backPtr |-> 8 + sizes.val[1]],
                               tiff.ifds, 1, 8, tiff.littleEndian),
                 8 + sizes.val[1] - 4, BytesOf32(0, tiff.littleEndian))

encodeTiffRun(tiff) == encodeTiffWith(tiff, SumIfdSizes(tiff.ifds, 1))

Returned(st) == IF st.ok THEN Ok(st.buf) ELSE Err

encodeTiff(tiff) == Returned(encodeTiffRun(tiff))

----------------------------------------------------------------------------
(* The TIFF files the TIFF run decodes: a header, the IFDs one after the   *)
(* other from offset 8, then the payloads longer than 4 bytes in entry     *)
(* order.  An entry of a file is [tag, type, count, payload], the payload  *)
(* being the bytes of the value as they lie in the file.                   *)

MaxIfds == 2
MaxEntries == 2

WireTags == {ASCII, 271}

WirePayloads ==
    { [type |-> UINT8, count |-> 1, payload |-> <<200>>],
      [type |-> UINT8, count |-> 5, payload |-> <<1, 2, 3, 4, 250>>],
      [type |-> ASCII, count |-> 1, payload |-> <<0>>],
      [type |-> ASCII, count |-> 2, payload |-> <<65, 0>>],
      [type |-> ASCII, count |-> 4, payload |-> <<65, 66, 67, 0>>],
      [type |-> ASCII, count |-> 6, payload |-> <<72, 101, 108, 108, 111, 0>>],
      [type |-> UINT16, count |-> 1, payload |-> <<1, 2>>],
      [type |-> UINT16, count |-> 3, payload |-> <<1, 2, 255, 255, 0, 7>>],
      [type |-> UINT32, count |-> 1, payload |-> <<1, 0, 0, 2>>],
      [type |-> UINT32, count |-> 2, payload |-> <<0, 0, 1, 0, 127, 255, 255, 127>>],
      [type |-> URATIONAL, count |-> 1, payload |-> <<0, 0, 0, 72, 1, 0, 0, 0>>],
      [type |-> INT8, count |-> 2, payload |-> <<255, 5>>],
      [type |-> INT8, count |-> 5, payload |-> <<128, 127, 0, 255, 1>>],
      [type |-> UNDEFINED8, count |-> 4, payload |-> <<48, 50, 51, 50>>],
      [type |-> UNDEFINED8, count |-> 9,
       payload |-> <<65, 83, 67, 73, 73, 0, 0, 0, 33>>],
      [type |-> INT16, count |-> 1, payload |-> <<255, 254>>],
      [type |-> INT16, count |-> 2, payload |-> <<7, 7, 128, 0>>],
      [type |-> INT16, count |-> 3, payload |-> <<0, 1, 255, 255, 3, 3>>],
      [type |-> INT32, count |-> 1, payload |-> <<255, 255, 255, 254>>],
      [type |-> INT32, count |-> 1, payload |-> <<9, 9, 9, 9>>],
      [type |-> INT32, count |-> 2, payload |-> <<0, 0, 0, 1, 128, 0, 0, 0>>],
      [type |-> SRATIONAL, count |-> 1,
       payload |-> <<255, 255, 255, 255, 2, 0, 0, 0>>],
      [type |-> SINGLE, count |-> 1, payload |-> <<63, 128, 0, 0>>],
      [type |-> SINGLE, count |-> 1, payload |-> <<0, 0, 0, 0>>],
      [type |-> SINGLE, count |-> 2, payload |-> <<64, 73, 15, 219, 0, 0, 128, 63>>],
      [type |-> DOUBLE, count |-> 1, payload |-> <<63, 128, 0, 0, 0, 0, 128, 63>>],
      [type |-> DOUBLE, count |-> 1, payload |-> <<0, 0, 0, 0, 0, 0, 0, 0>>] }

\* The first entry of the first IFD
FirstEntries ==
    { [tag |-> t, type |-> w.type, count |-> w.count, payload |-> w.payload] :
        t \in WireTags, w \in WirePayloads }

\* Every further entry, by its position in its IFD
FillerEntry(j) ==
    IF j % 2 = 0
    THEN [tag |-> 272, type |-> UINT16, count |-> 2, payload |-> <<3, 0, 0, 4>>]
    ELSE [tag |-> 37510, type |-> UNDEFINED8, count |-> 6,
          payload |-> <<1, 2, 3, 4, 5, 6>>]

\* The IFD lists of the files: 1..MaxIfds IFDs of 1..MaxEntries entries
WireIfd(first, n) == [j \in 1..n |-> IF j = 1 THEN first ELSE FillerEntry(j)]

WireIfdLists ==
    { [i \in 1..k |-> IF i = 1 THEN WireIfd(first, n) ELSE WireIfd(FillerEntry(i), n)] :
        first \in FirstEntries, k \in 1..MaxIfds, n \in 1..MaxEntries }

RECURSIVE SeqSum(_)
SeqSum(s) == IF Len(s) = 0 THEN 0 ELSE s[1] + SeqSum(Tail(s))

RECURSIVE ConcatAll(_)
ConcatAll(ss) == IF Len(ss) = 0 THEN <<>> ELSE ss[1] \o ConcatAll(Tail(ss))

WireBackSize(e) == IF Len(e.payload) > 4 THEN Len(e.payload) ELSE 0

\* The bytes of the file with the IFDs ifds in the byte order littleEndian
WireTiff(littleEndian, ifds) ==
    LET frontSize(i) == 6 + (12 * Len(ifds[i]))
        ifdStart(i) == 8 + SeqSum([k \in 1..(i - 1) |-> frontSize(k)])
        backStart == ifdStart(Len(ifds) + 1)
        backBefore(i, j) ==
            SeqSum([k \in 1..(i - 1) |->
                        SeqSum([m \in 1..Len(ifds[k]) |-> WireBackSize(ifds[k][m])])])
            + SeqSum([m \in 1..(j - 1) |-> WireBackSize(ifds[i][m])])
        entryBytes(i, j) ==
            LET e == ifds[i][j]
            IN  BytesOf16(e.tag, littleEndian) \o BytesOf16(e.type, littleEndian)
                \o BytesOf32(e.count, littleEndian)
                \o (IF Len(e.payload) > 4
                    THEN BytesOf32(backStart + backBefore(i, j), littleEndian)
                    ELSE e.payload \o Zeros(4 - Len(e.payload)))
        ifdBytes(i) ==
            BytesOf16(Len(ifds[i]), littleEndian)
            \o ConcatAll([j \in 1..Len(ifds[i]) |-> entryBytes(i, j)])
            \o BytesOf32(IF i = Len(ifds) THEN 0 ELSE ifdStart(i + 1), littleEndian)
        backBytes(i) ==
            ConcatAll([j \in 1..Len(ifds[i]) |->
                          IF Len(ifds[i][j].payload) > 4 THEN ifds[i][j].payload
                          ELSE <<>>])
    IN  ByteOrderMark(littleEndian) \o BytesOf32(8, littleEndian)
        \o ConcatAll([i \in 1..Len(ifds) |-> ifdBytes(i)])
        \o ConcatAll([i \in 1..Len(ifds) |-> backBytes(i)])

TiffInputs == { WireTiff(le, ifds) : le \in BOOLEAN, ifds \in WireIfdLists }

(* Files that are cut short, files whose next-IFD offsets point backwards  *)
(* or in a cycle, and files with an Exif pointer entry (tag 0x8769).       *)

\* Files of one IFD: their first entry has tag 271 and every payload
OneIfdTiffs ==
    { WireTiff(le, << WireIfd([tag |-> 271, type |-> w.type, count |-> w.count,
                               payload |-> w.payload], n) >>) :
        le \in BOOLEAN, w \in WirePayloads, n \in 1..MaxEntries }

\* Every proper prefix of a file of one IFD.  The files are packed without
\* padding, so a prefix lacks a part of the header, of the IFD or of a payload.
TruncatedTiffs == UNION { { SubSeq(f, 1, m) : m \in 0..(Len(f) - 1) } : f \in OneIfdTiffs }

\* The file with the 32-bit field at offset at set to target
Repoint(file, at, target, littleEndian) ==
    SubSeq(file, 1, at) \o BytesOf32(target, littleEndian)
    \o SubSeq(file, at + 5, Len(file))

\* A file of one IFD of n entries whose next-IFD offset is its own offset
SelfLoopTiff(littleEndian, first, n) ==
    Repoint(WireTiff(littleEndian, << WireIfd(first, n) >>),
            10 + (12 * n), 8, littleEndian)

\* A file of two IFDs of n entries: the second one's next-IFD offset is the
\* offset of the first
TwoCycleTiff(littleEndian, first, n) ==
    Repoint(WireTiff(littleEndian, << WireIfd(first, n), WireIfd(FillerEntry(2), n) >>),
            16 + (24 * n), 8, littleEndian)

\* A file of two IFDs of n entries that is walked from the second IFD back
\* to the first, where the chain ends
BackwardTiff(littleEndian, first, n) ==
    Repoint(Repoint(TwoCycleTiff(littleEndian, first, n), 4, 14 + (12 * n), littleEndian),
            10 + (12 * n), 0, littleEndian)

CyclicTiffs ==
    { SelfLoopTiff(le, first, n) : le \in BOOLEAN, first \in FirstEntries, n \in 0..MaxEntries }
    \cup { TwoCycleTiff(le, first, n) : le \in BOOLEAN, first \in FirstEntries, n \in 1..MaxEntries }

BackwardTiffs ==
    { BackwardTiff(le, first, n) : le \in BOOLEAN, first \in FirstEntries, n \in 1..MaxEntries }

ExifIFD == 34665

\* The entry with tag 0x8769 whose value is the offset at
ExifPointer(at, littleEndian) ==
    [tag |-> ExifIFD, type |-> UINT32, count |-> 1, payload |-> BytesOf32(at, littleEndian)]

\* The records of an IFD with the one entry ExifVersion '0230'
ExifChildBytes(littleEndian) ==
    BytesOf16(1, littleEndian)
    \o BytesOf16(36864, littleEndian) \o BytesOf16(UNDEFINED8, littleEndian)
    \o BytesOf32(4, littleEndian) \o <<48, 50, 51, 48>>
    \o BytesOf32(0, littleEndian)

\* A file of one IFD of n entries, the first one an Exif pointer to the IFD
\* that follows the file's payloads
ExifPointerTiff(littleEndian, n) ==
    WireTiff(littleEndian,
             << WireIfd(ExifPointer(Len(WireTiff(littleEndian,
                                                  << WireIfd(ExifPointer(0, littleEndian), n) >>)),
                                    littleEndian), n) >>)
    \o ExifChildBytes(littleEndian)

ExifPointerTiffs == { ExifPointerTiff(le, n) : le \in BOOLEAN, n \in 1..MaxEntries }

(* The Tiff objects a caller builds and hands to encodeTiff: every entry   *)
(* has a type code of 1..12; an entry's value is what the decoder returns  *)
(* for the type, or an Ifd.                                                *)

\* Numbers an Int32Array holds: the least, the greatest, around 0
Int32Samples == {(-2147483647) - 1, -2147483647, -1, 0, 1, 2147483647}

\* The values the decoder returns for the payloads above, the string 'ABCD',
\* two UINT16 values, and SRATIONAL values of every pair of Int32Samples
ObjValues ==
    { [type |-> w.type,
       value |-> readEntryValue(w.payload, 0, w.type, w.count, FALSE).val] :
        w \in WirePayloads }
    \cup { [type |-> ASCII, value |-> [elems |-> <<65, 66, 67, 68>>]],
           [type |-> UINT16, value |-> [elems |-> <<258, 65535>>]] }
    \cup { [type |-> SRATIONAL, value |-> [elems |-> << <<n, d>> >>]] :
             n \in Int32Samples, d \in Int32Samples }
    \cup { [type |-> SRATIONAL,
            value |-> [elems |-> << <<-1, 3>>, <<(-2147483647) - 1, -2>> >>]] }

ObjEntry(tag, v) == [tag |-> tag, type |-> v.type, value |-> v.value]

\* The entries of the nested IFDs
ChildEntries ==
    { [tag |-> 36864, type |-> UNDEFINED8, value |-> [elems |-> <<48, 50, 51, 48>>]],
      [tag |-> 271, type |-> ASCII, value |-> [elems |-> <<72, 101, 108, 108, 111>>]],
      [tag |-> ASCII, type |-> ASCII, value |-> [elems |-> <<72, 101, 108, 108, 111>>]],
      [tag |-> 272, type |-> UINT16, value |-> [elems |-> <<1, 2, 3>>]],
      [tag |-> 37380, type |-> INT16, value |-> [elems |-> <<1>>]] }

\* Nested IFDs of no, one and two entries, and one that nests a further IFD
ChildIfds ==
    { [entries |-> <<>>] }
    \cup { [entries |-> <<e>>] : e \in ChildEntries }
    \cup { [entries |-> <<e1, e2>>] : e1 \in ChildEntries, e2 \in ChildEntries }
    \cup { [entries |-> << [tag |-> 40965, type |-> UINT32,
                            value |-> [entries |-> <<e1>>]], e2 >>] :
             e1 \in ChildEntries, e2 \in ChildEntries }

\* The entry that varies: any tag of WireTags with any value, or a nested IFD
ObjFirstEntries ==
    { ObjEntry(t, v) : t \in WireTags, v \in ObjValues }
    \cup { [tag |-> ExifIFD, type |-> UINT32, value |-> child] : child \in ChildIfds }

\* Every other entry, by its position in its IFD
ObjFiller(j) ==
    IF j % 2 = 0
    THEN [tag |-> 272, type |-> UINT16, value |-> [elems |-> <<768, 4>>]]
    ELSE [tag |-> 37510, type |-> UNDEFINED8, value |-> [elems |-> <<1, 2, 3, 4, 5, 6>>]]

\* An IFD of n entries with the entry first at position slot (0 for none)
ObjIfd(first, n, slot) ==
    [entries |-> [j \in 1..n |-> IF j = slot THEN first ELSE ObjFiller(j)]]

\* 1..MaxIfds IFDs of 1..MaxEntries entries, the first IFD with one entry
\* that varies, a Tiff whose one IFD has no entries, and a Tiff with no IFD
TiffObjects ==
    { [littleEndian |-> le,
       ifds |-> [i \in 1..k |-> ObjIfd(first, n, IF i = 1 THEN slot ELSE 0)]] :
        le \in BOOLEAN, first \in ObjFirstEntries, k \in 1..MaxIfds,
        n \in 1..MaxEntries, slot \in 1..MaxEntries }
    \cup { [littleEndian |-> le, ifds |-> << [entries |-> <<>>] >>] : le \in BOOLEAN }
    \cup { [littleEndian |-> le, ifds |-> <<>>] : le \in BOOLEAN }

WalkInputs ==
    TiffInputs \cup TruncatedTiffs \cup CyclicTiffs \cup BackwardTiffs \cup ExifPointerTiffs

----------------------------------------------------------------------------
(* jpg.js: decodeJpg and encodeJpg.                                        *)
(*   Jpg        [segments |-> sequence of JpgSegment]                      *)
(*   JpgSegment [type |-> u8, data |-> bytes]                              *)

NoDataMarker(t) == t = 216 \/ (t >= 208 /\ t <= 215) \/ t = 217

LengthMarker(t) ==
    t = 192 \/ t = 194 \/ t = 196 \/ t = 219 \/ (t >= 224 /\ t <= 239) \/ t = 254

\* A test that stops the scan at a restart marker too: an 0xFF followed by
\* anything but 0x00
ScanStopsAtRestart(data, q) ==
    /\ data[q + 1] = 255
    /\ data[q + 2] # 0

\* Whether the scan after an SOS header stops at offset q: an 0xFF followed
\* by anything but 0x00 and 0xD0..0xD7
ScanStopsAt(data, q) ==
    /\ data[q + 1] = 255
    /\ data[q + 2] # 0
    /\ (data[q + 2] < 208 \/ data[q + 2] > 215)

\* The value of ptr when the for loop of the SOS branch, entered with ptr = p0,
\* ends
ScanEnd(data, p0) ==
    LET stops == { q \in p0..(Len(data) - 2) : ScanStopsAt(data, q) }
    IN  IF stops # {} THEN CHOOSE q \in stops : \A r \in stops : q <= r
        ELSE IF p0 > Len(data) - 1 THEN p0 ELSE Len(data) - 1

\* parseSegment with ptr < data.byteLength: the segment and the new ptr
parseSegment(data, ptr) ==
    IF data[ptr + 1] # 255 THEN Err
    ELSE IF ~InRange(data, ptr + 1, 1) THEN Err
    ELSE LET payloadType == data[ptr + 2] IN
      IF NoDataMarker(payloadType)
        THEN Ok([seg |-> [type |-> payloadType, data |-> <<>>], ptr |-> ptr + 2])
      ELSE IF LengthMarker(payloadType)
        THEN IF ~InRange(data, ptr + 2, 2) THEN Err
             ELSE LET length == getUint16(data, ptr + 2, FALSE)
                  IN  Ok([seg |-> [type |-> payloadType,
                                   data |-> Subarray(data, ptr + 2, ptr + 2 + length)],
                          ptr |-> ptr + 2 + length])
      ELSE IF payloadType = 221
        THEN Ok([seg |-> [type |-> payloadType,
                          data |-> Subarray(data, ptr + 2, ptr + 6)],
                 ptr |-> ptr + 6])
      ELSE IF payloadType = 218
        THEN IF ~InRange(data, ptr + 2, 2) THEN Err
             ELSE LET payloadLength == getUint16(data, ptr + 2, FALSE)
                      end == ScanEnd(data, ptr + 2 + payloadLength)
                  IN  Ok([seg |-> [type |-> payloadType,
                                   data |-> Subarray(data, ptr + 2, end)],
                          ptr |-> end])
      ELSE Err

\* parseAllSegments' while loop at ptr with the segments parsed so far
RECURSIVE parseAllSegmentsFrom(_, _, _)
parseAllSegmentsFrom(data, ptr, sections) ==
    IF ptr >= Len(data) THEN Ok(sections)
    ELSE LET next == parseSegment(data, ptr)
         IN  IF ~next.ok THEN Err
             ELSE parseAllSegmentsFrom(data, next.val.ptr, Append(sections, next.val.seg))

decodeJpg(data) ==
    LET segments == parseAllSegmentsFrom(data, 0, <<>>)
    IN  IF ~segments.ok THEN Err ELSE Ok([segments |-> segments.val])

encodeJpg(jpg) ==
    ConcatAll([i \in 1..Len(jpg.segments) |->
                  <<255, jpg.segments[i].type % 256>> \o jpg.segments[i].data])

----------------------------------------------------------------------------
(* exif.js.  An Exif record is a function from the names of the fields it  *)
(* has to their strings.                                                   *)

ExifIfdTag == 34665
ExifVersionTag == 36864
UserCommentTag == 37510

ExifHeader == <<69, 120, 105, 102, 0, 0>>

EmptyExif == [f \in {} |-> <<>>]

\* A checkHeader that does not compare the size field with the length
checkHeaderNoSize(data) ==
    /\ InRange(data, 0, 2)
    /\ \A i \in 1..6 : ByteAt(data, 1 + i) = ExifHeader[i]

\* checkHeader: TRUE when it returns, FALSE when it throws
checkHeader(data) ==
    /\ InRange(data, 0, 2)
    /\ getUint16(data, 0, FALSE) = Len(data)
    /\ \A i \in 1..6 : ByteAt(data, 1 + i) = ExifHeader[i]

\* exif[field] = value
SetField(exif, field, value) ==
    [f \in DOMAIN exif \cup {field} |-> IF f = field THEN value ELSE exif[f]]

\* A loop body that takes ExifVersion and UserComment from entries of any type
readExifEntryAnyType(exif, entry) ==
    IF entry.tag = ExifVersionTag /\ Len(entry.value.elems) = 4
    THEN SetField(exif, "ExifVersion", decode(entry.value.elems))
    ELSE IF entry.tag = UserCommentTag
    THEN SetField(exif, "UserComment",
                  decode(Subarray(entry.value.elems, 8, Len(entry.value.elems))))
    ELSE exif

\* The body of readExifIfd's loop for one entry
readExifEntry(exif, entry) ==
    IF entry.tag = ExifVersionTag /\ entry.type = UNDEFINED8
       /\ Len(entry.value.elems) = 4
    THEN SetField(exif, "ExifVersion", decode(entry.value.elems))
    ELSE IF entry.tag = UserCommentTag /\ entry.type = UNDEFINED8
    THEN SetField(exif, "UserComment",
                  decode(Subarray(entry.value.elems, 8, Len(entry.value.elems))))
    ELSE exif

\* readExifIfd's loop from entry i on: each matching entry overwrites the field
RECURSIVE readExifIfd(_, _, _)
readExifIfd(entries, i, exif) ==
    IF i > Len(entries) THEN exif
    ELSE readExifIfd(entries, i + 1, readExifEntry(exif, entries[i]))

\* The record readExifIfd fills from the IFD decodeIfd has returned
ExifOfIfd(exifIfd) ==
    IF ~exifIfd.ok THEN Err ELSE Ok(readExifIfd(exifIfd.val.entries, 1, EmptyExif))

\* readTiff once it has found exifIfdEntry in IFD0
readTiffEntry(tiffView, littleEndian, exifIfdEntry) ==
    IF exifIfdEntry.type # UINT32 \/ Len(exifIfdEntry.value.elems) # 1
    THEN Ok(EmptyExif)
    ELSE ExifOfIfd(decodeIfd(tiffView, exifIfdEntry.value.elems[1], littleEndian))

\* entries.find(i => i.tag === 0x8769): the index of the first, 0 if none
FindExifIfdEntry(entries) ==
    LET found == { i \in 1..Len(entries) : entries[i].tag = ExifIfdTag }
    IN  IF found = {} THEN 0 ELSE CHOOSE i \in found : \A j \in found : i <= j

\* readTiff: the record, or Err when decodeIfd throws
readTiff(tiffView, decodedTiff) ==
    IF ~decodedTiff.ok THEN decodedTiff
    ELSE IF Len(decodedTiff.val.ifds) = 0 THEN Ok(EmptyExif)
    ELSE IF FindExifIfdEntry(decodedTiff.val.ifds[1].entries) = 0 THEN Ok(EmptyExif)
    ELSE readTiffEntry(tiffView, decodedTiff.val.littleEndian,
                       decodedTiff.val.ifds[1].entries[
                           FindExifIfdEntry(decodedTiff.val.ifds[1].entries)])

\* decodeExif after checkHeader, on the TIFF bytes
decodeExifTiff(tiffView) == readTiff(tiffView, decodeTiff(tiffView))

decodeExif(data) ==
    IF ~checkHeader(data) THEN Err
    ELSE decodeExifTiff(Subarray(data, 8, Len(data)))

\* The UserComment value: the header ASCII, null padded to 8 bytes, then the
\* low byte of each code unit
UserCommentBytes(comment) ==
    <<65, 83, 67, 73, 73, 0, 0, 0>> \o [i \in 1..Len(comment) |-> comment[i] % 256]

\* The Exif IFD's entries, in the order encodeExif pushes them
ExifEntries(exif) ==
    (IF hasOwn(exif, "ExifVersion")
     THEN <<[tag |-> ExifVersionTag, type |-> UNDEFINED8,
             value |-> [elems |-> encode(exif.ExifVersion)]]>>
     ELSE <<>>)
    \o (IF hasOwn(exif, "UserComment")
        THEN <<[tag |-> UserCommentTag, type |-> UNDEFINED8,
                value |-> [elems |-> UserCommentBytes(exif.UserComment)]]>>
        ELSE <<>>)

\* An encodeExif that takes an ExifVersion of any length
encodeExifAnyVersion(exif) ==
    encodeTiff([littleEndian |-> TRUE,
                ifds |-> <<[entries |->
                             <<[tag |-> ExifIfdTag, type |-> UINT32,
                                value |-> [entries |-> ExifEntries(exif)]]>>]>>])

encodeExif(exif) ==
    IF hasOwn(exif, "ExifVersion") /\ Len(encode(exif.ExifVersion)) # 4 THEN Err
    ELSE encodeTiff([littleEndian |-> TRUE,
                     ifds |-> <<[entries |->
                                  <<[tag |-> ExifIfdTag, type |-> UINT32,
                                     value |-> [entries |-> ExifEntries(exif)]]>>]>>])

\* jpg.segments.find(i => i.type === 0xE1): the index of the first APP1
\* segment, 0 when there is none
FindApp1(jpg) ==
    LET found == { i \in 1..Len(jpg.segments) : jpg.segments[i].type = 225 }
    IN  IF found = {} THEN 0 ELSE CHOOSE i \in found : \A j \in found : i <= j

decodeJpgExif(jpg) ==
    IF FindApp1(jpg) = 0 THEN Ok(EmptyExif)
    ELSE decodeExif(jpg.segments[FindApp1(jpg)].data)

\* The data updateJpgExif gives the segment: size, 'Exif', 2 null bytes, TIFF
ExifData(encodedTiff) ==
    BytesOf16(Len(encodedTiff) + 8, FALSE) \o ExifHeader \o encodedTiff

\* updateJpgExif once encodeExif has returned encodedTiff: segment.data = exifData
ReplaceData(jpg, index, encodedTiff) ==
    IF ~encodedTiff.ok THEN Err
    ELSE Ok([segments |-> [jpg.segments EXCEPT ![index].data = ExifData(encodedTiff.val)]])

\* An updateJpgExif that adds an APP1 segment to a Jpg that has none
updateJpgExifAdding(jpg, exif) ==
    IF FindApp1(jpg) = 0
    THEN ReplaceData([segments |-> Append(jpg.segments, [type |-> 225, data |-> <<>>])],
                     Len(jpg.segments) + 1, encodeExif(exif))
    ELSE ReplaceData(jpg, FindApp1(jpg), encodeExif(exif))

\* An updateJpgExif that gives the new data to every APP1 segment
updateJpgExifEvery(jpg, exif) ==
    IF FindApp1(jpg) = 0 THEN Ok(jpg)
    ELSE IF ~encodeExif(exif).ok THEN Err
    ELSE Ok([segments |->
                [i \in 1..Len(jpg.segments) |->
                    IF jpg.segments[i].type = 225
                    THEN [jpg.segments[i] EXCEPT !.data = ExifData(encodeExif(exif).val)]
                    ELSE jpg.segments[i]]])

\* updateJpgExif(jpg, exif): the Jpg after the call, or Err when it throws
\* (and leaves the Jpg as it was)
updateJpgExif(jpg, exif) ==
    IF FindApp1(jpg) = 0 THEN Ok(jpg)
    ELSE ReplaceData(jpg, FindApp1(jpg), encodeExif(exif))

----------------------------------------------------------------------------
(* png.js: decodePng, encodePng and the tEXt chunks.                       *)
(*   Png      [chunks |-> sequence of PngChunk]                            *)
(*   PngChunk [type |-> string, data |-> bytes]                            *)
(* A 32-bit word is the sequence of its 4 bytes, most significant first.   *)

HEADER == <<137, 80, 78, 71, 13, 10, 26, 10>>

\* a ^ b on 4-bit numbers
Xor4 ==
    [a \in 0..15, b \in 0..15 |->
        (((a + b) % 2)
         + (2 * (((a \div 2) + (b \div 2)) % 2))
         + (4 * (((a \div 4) + (b \div 4)) % 2))
         + (8 * (((a \div 8) + (b \div 8)) % 2)))]

\* a ^ b on bytes
Xor8(a, b) == (16 * Xor4[a \div 16, b \div 16]) + Xor4[a % 16, b % 16]

\* x ^ y on words
Xor32(x, y) == <<Xor8(x[1], y[1]), Xor8(x[2], y[2]), Xor8(x[3], y[3]), Xor8(x[4], y[4])>>

\* (c >>> 1) & 0x7FFFFFFF
ShiftRight1(c) ==
    <<c[1] \div 2,
      ((c[1] % 2) * 128) + (c[2] \div 2),
      ((c[2] % 2) * 128) + (c[3] \div 2),
      ((c[3] % 2) * 128) + (c[4] \div 2)>>

\* computeCrc32Table's inner loop from round k on, for the value c
RECURSIVE Crc32TableEntry(_, _)
Crc32TableEntry(c, k) ==
    IF k = 8 THEN c
    ELSE Crc32TableEntry(IF c[4] % 2 = 1
                         THEN Xor32(<<237, 184, 131, 32>>, ShiftRight1(c))
                         ELSE ShiftRight1(c),
                         k + 1)

\* CRC32_TABLE once computeCrc32Table has run, as the sequence of its 256
\* words: CRC32_TABLE[n] of the code is at n + 1
CRC32_TABLE == SubSeq([n \in 1..256 |-> Crc32TableEntry(<<0, 0, 0, n - 1>>, 0)], 1, 256)

\* computeCrc32's loop from the byte at index i on, for the value c, a word
\* of 4 bytes that every round computes before the next one starts
RECURSIVE computeCrc32From(_, _, _)
computeCrc32From(data, i, c) ==
    IF i > Len(data) \/ Len(c) # 4 THEN c
    ELSE computeCrc32From(data, i + 1,
                          Xor32(<<0, c[1], c[2], c[3]>>,
                                CRC32_TABLE[Xor8(c[4], data[i]) + 1]))

\* A computeCrc32 that returns c without the final complement
computeCrc32Raw(data) == computeCrc32From(data, 1, <<255, 255, 255, 255>>)

computeCrc32(data) ==
    Xor32(computeCrc32From(data, 1, <<255, 255, 255, 255>>), <<255, 255, 255, 255>>)

\* decodePng's checkHeader: TRUE when it returns, FALSE when it throws
checkPngHeader(data) ==
    Len(data) >= Len(HEADER) /\ \A i \in 1..8 : data[i] = HEADER[i]

\* parseChunk once it has read length: the chunk and the new ptr.  The two
\* subarrays never throw; the read of the CRC does when it is out of range.
parseChunkOf(data, ptr, length) ==
    IF ~InRange(data, ptr + 8 + length, 4) THEN Err
    ELSE Ok([chunk |-> [type |-> decode(Subarray(data, ptr + 4, ptr + 8)),
                        data |-> Subarray(data, ptr + 8, ptr + 8 + length)],
             ptr |-> ptr + 12 + length])

parseChunk(data, ptr) ==
    IF ~InRange(data, ptr, 4) THEN Err
    ELSE parseChunkOf(data, ptr, getUint32(data, ptr, FALSE))

\* parseAllChunks' while loop at ptr with the chunks parsed so far
RECURSIVE parseAllChunksFrom(_, _, _)

\* The loop once parseChunk has returned next
parseAllChunksNext(data, chunks, next) ==
    IF ~next.ok THEN Err
    ELSE parseAllChunksFrom(data, next.val.ptr, Append(chunks, next.val.chunk))

parseAllChunksFrom(data, ptr, chunks) ==
    IF ptr >= Len(data) THEN Ok(chunks)
    ELSE parseAllChunksNext(data, chunks, parseChunk(data, ptr))

PngOf(chunks) == IF ~chunks.ok THEN Err ELSE Ok([chunks |-> chunks.val])

decodePng(data) ==
    IF ~checkPngHeader(data) THEN Err
    ELSE PngOf(parseAllChunksFrom(data, 8, <<>>))

\* encodePng's first loop: resultLength
RECURSIVE ResultLength(_, _)
ResultLength(chunks, i) ==
    IF i > Len(chunks) THEN 8
    ELSE 12 + Len(chunks[i].data) + ResultLength(chunks, i + 1)

\* The CRC of the bytes from..to-1 of the result, stored at to
StoreCrc(st, from, to) ==
    IF ~st.ok THEN Err
    ELSE StoreIn(st, to, computeCrc32(Subarray(st.buf, from, to)))

\* A loop body that leaves the length field of the chunk as it is, 0
writeChunkNoLength(st, chunk, ptr) ==
    StoreCrc(StoreIn(StoreIn(st, ptr + 4, encode(chunk.type)),
                     ptr + 8, chunk.data),
             ptr + 4, ptr + 8 + Len(chunk.data))

\* The body of encodePng's second loop for a chunk written at ptr; the state
\* is [ok, buf], Err once a set has thrown
writeChunk(st, chunk, ptr) ==
    StoreCrc(StoreIn(StoreIn(StoreIn(st, ptr, BytesOf32(Len(chunk.data), FALSE)),
                             ptr + 4, encode(chunk.type)),
                     ptr + 8, chunk.data),
             ptr + 4, ptr + 8 + Len(chunk.data))

RECURSIVE writeChunksFrom(_, _, _, _)
writeChunksFrom(st, chunks, i, ptr) ==
    IF ~st.ok THEN Err
    ELSE IF i > Len(chunks) THEN st
    ELSE writeChunksFrom(writeChunk(st, chunks[i], ptr), chunks, i + 1,
                         ptr + 12 + Len(chunks[i].data))

encodePng(png) ==
    Returned(writeChunksFrom([ok |-> TRUE,
                              buf |-> HEADER \o Zeros(ResultLength(png.chunks, 1) - 8)],
                             png.chunks, 1, 8))

\* The string 'tEXt'
TextType == <<116, 69, 88, 116>>

\* The test findTextSection makes on a chunk: the key, then a null terminator
TextMatches(chunk, key) ==
    /\ chunk.type = TextType
    /\ \A i \in 1..Len(key) : ByteAt(chunk.data, i - 1) = key[i]
    /\ ByteAt(chunk.data, Len(key)) = 0

\* A test without the null terminator
TextMatchesPrefix(chunk, key) ==
    /\ chunk.type = TextType
    /\ \A i \in 1..Len(key) : ByteAt(chunk.data, i - 1) = key[i]

\* A findTextSection that makes the test without the null terminator
findTextSectionPrefix(png, key) ==
    LET found == { i \in 1..Len(png.chunks) : TextMatchesPrefix(png.chunks[i], key) }
    IN  IF found = {} THEN 0 ELSE CHOOSE i \in found : \A j \in found : i <= j

\* findTextSection(png, key): the index of the chunk it returns, 0 for null
findTextSection(png, key) ==
    LET found == { i \in 1..Len(png.chunks) : TextMatches(png.chunks[i], key) }
    IN  IF found = {} THEN 0 ELSE CHOOSE i \in found : \A j \in found : i <= j

\* What getText returns: null, or a string
Null == [null |-> TRUE]

String(string) == [null |-> FALSE, string |-> string]

\* The index of the first null byte of data, Len(data) + 1 when it has none
FirstNull(data) ==
    LET nulls == { i \in 1..Len(data) : data[i] = 0 }
    IN  IF nulls = {} THEN Len(data) + 1
        ELSE CHOOSE i \in nulls : \A j \in nulls : i <= j

\* getText(png, key): the string after the first null byte, or Null
getText(png, key) ==
    IF findTextSection(png, key) = 0 THEN Null
    ELSE String(SubSeq(png.chunks[findTextSection(png, key)].data,
                       FirstNull(png.chunks[findTextSection(png, key)].data) + 1,
                       Len(png.chunks[findTextSection(png, key)].data)))

\* The data setText builds: the low bytes of the key, a null, those of the value
TextData(key, value) ==
    [i \in 1..Len(key) |-> key[i] % 256] \o <<0>> \o [i \in 1..Len(value) |-> value[i] % 256]

\* chunks.push(chunk): the chunk goes after every chunk there is
SpliceEnd(chunks, chunk) == chunks \o <<chunk>>

\* chunks.splice(1, 0, chunk)
Splice1(chunks, chunk) ==
    IF Len(chunks) = 0 THEN <<chunk>>
    ELSE <<chunks[1]>> \o <<chunk>> \o Tail(chunks)

\* setText(png, key, value): the Png after the call
setText(png, key, value) ==
    IF findTextSection(png, key) # 0
    THEN [chunks |-> [png.chunks EXCEPT ![findTextSection(png, key)].data =
                                           TextData(key, value)]]
    ELSE [chunks |-> Splice1(png.chunks, [type |-> TextType,
                                          data |-> TextData(key, value)])]

----------------------------------------------------------------------------
(* Inputs of the JPEG run: streams of well-framed segments.                *)

MaxSegments == 2

SOI == <<255, 216>>

EOI == <<255, 217>>

\* A segment with a u16 big-endian length that counts itself and the payload
Framed(type, payload) ==
    <<255, type>> \o BytesOf16(Len(payload) + 2, FALSE) \o payload

\* Segments between SOI and the scan: APP0, APP1, COM (one holding 0xFF 0xD9),
\* DQT, the frame headers SOF0, SOF1, SOF2 and SOF3, DHT and DRI
MiddleSegments ==
    { Framed(224, <<74, 70>>), Framed(225, <<69, 120>>), Framed(254, <<>>),
      Framed(254, <<255, 217>>), Framed(219, <<0, 16>>), Framed(192, <<8>>),
      Framed(193, <<8>>), Framed(194, <<8>>), Framed(195, <<8>>),
      Framed(196, <<0>>), <<255, 221, 0, 4, 0, 8>> }

\* Nothing, or an SOS header and its entropy-coded data: empty, with a stuffed
\* 0xFF, with restart markers, and both after a header that holds 0xFF 0xD9
Scans ==
    { <<>>,
      Framed(218, <<1>>),
      Framed(218, <<1>>) \o <<18, 255, 0, 52>>,
      Framed(218, <<1>>) \o <<18, 255, 208, 52, 255, 215>>,
      Framed(218, <<255, 217>>) \o <<18, 255, 0, 255, 208>> }

JpgInputs ==
    { SOI \o ConcatAll(middle) \o scan \o EOI :
        middle \in UNION { [1..n -> MiddleSegments] : n \in 0..MaxSegments },
        scan \in Scans }

----------------------------------------------------------------------------
(* Inputs of the Exif run: frames as the encoder and a camera write them,  *)
(* and damaged copies of them.                                             *)

\* A big-endian frame whose Exif IFD holds ExifVersion "0230"
CameraExif ==
    <<0, 52, 69, 120, 105, 102, 0, 0,
      77, 77, 0, 42, 0, 0, 0, 8,
      0, 1, 135, 105, 0, 4, 0, 0, 0, 1, 0, 0, 0, 26, 0, 0, 0, 0,
      0, 1, 144, 0, 0, 7, 0, 0, 0, 4, 48, 50, 51, 48, 0, 0, 0, 0>>

\* A little-endian frame whose IFD0 has no entries
BareExif ==
    <<0, 22, 69, 120, 105, 102, 0, 0, 73, 73, 42, 0, 8, 0, 0, 0, 0, 0, 0, 0, 0, 0>>

\* An APP1 payload that is not Exif
Xmp == <<0, 6, 104, 116, 116, 112>>

\* The length of the shortest UserComment whose frame takes 65536 bytes
LongCommentLength == 65536 - 60

\* LongCommentLength times "a"
LongComment == SubSeq([i \in 1..LongCommentLength |-> 97], 1, LongCommentLength)

\* The records given to encodeExif and updateJpgExif; they have no other
\* fields than ExifVersion and UserComment.  The versions are "0232", "02",
\* and U+0141 "232" (4 code units, 5 bytes in UTF-8); the comments are "",
\* "Hi", "Test 123!", U+0141 and LongComment.
ExifRecords ==
    { EmptyExif,
      [ExifVersion |-> <<48, 50, 51, 50>>],
      [ExifVersion |-> <<48, 50>>],
      [ExifVersion |-> <<321, 50, 51, 50>>],
      [UserComment |-> <<>>],
      [UserComment |-> <<72, 105>>],
      [UserComment |-> <<84, 101, 115, 116, 32, 49, 50, 51, 33>>],
      [UserComment |-> <<321>>],
      [UserComment |-> LongComment],
      [ExifVersion |-> <<48, 50, 51, 50>>, UserComment |-> <<>>],
      [ExifVersion |-> <<48, 50, 51, 50>>, UserComment |-> <<72, 105>>],
      [ExifVersion |-> <<48, 50>>, UserComment |-> <<72, 105>>] }

ShortRecords ==
    { r \in ExifRecords : hasOwn(r, "UserComment") => Len(r.UserComment) < 10 }

ExifFrames ==
    { ExifData(encodeExif(r).val) : r \in { q \in ShortRecords : encodeExif(q).ok } }
    \cup { CameraExif, BareExif }

\* d, d with one of its first 8 bytes changed, d cut short, d with a byte more
Damaged(d) ==
    {d}
    \cup { [d EXCEPT ![i] = (d[i] + 1) % 256] : i \in 1..8 }
    \cup { [d EXCEPT ![i] = 0] : i \in 1..8 }
    \cup { SubSeq(d, 1, k) : k \in 0..8 }
    \cup { SubSeq(d, 1, Len(d) - 1), d \o <<0>> }

\* The bytes of an IFD that lies at offset at, followed by its payloads of
\* more than 4 bytes
WireIfdAt(littleEndian, entries, at) ==
    LET backStart == at + 6 + (12 * Len(entries))
        backBefore(j) == SeqSum([m \in 1..(j - 1) |-> WireBackSize(entries[m])])
        entryBytes(j) ==
            BytesOf16(entries[j].tag, littleEndian)
            \o BytesOf16(entries[j].type, littleEndian)
            \o BytesOf32(entries[j].count, littleEndian)
            \o (IF Len(entries[j].payload) > 4
                THEN BytesOf32(backStart + backBefore(j), littleEndian)
                ELSE entries[j].payload \o Zeros(4 - Len(entries[j].payload)))
    IN  BytesOf16(Len(entries), littleEndian)
        \o ConcatAll([j \in 1..Len(entries) |-> entryBytes(j)])
        \o BytesOf32(0, littleEndian)
        \o ConcatAll([j \in 1..Len(entries) |->
                         IF Len(entries[j].payload) > 4 THEN entries[j].payload
                         ELSE <<>>])

\* The entries a camera's Exif IFD may hold: ExifVersion '0230' and '0232',
\* an ExifVersion of 3 bytes and one of type UINT8, the UserComments 'Hi',
\* '' (8 bytes) and one of 4 bytes, a UserComment of type UINT8, and
\* ColorSpace
SubIfdPool ==
    { [tag |-> 36864, type |-> UNDEFINED8, count |-> 4, payload |-> <<48, 50, 51, 48>>],
      [tag |-> 36864, type |-> UNDEFINED8, count |-> 4, payload |-> <<48, 50, 51, 50>>],
      [tag |-> 36864, type |-> UNDEFINED8, count |-> 3, payload |-> <<48, 50, 51>>],
      [tag |-> 36864, type |-> UINT8, count |-> 4, payload |-> <<48, 50, 51, 48>>],
      [tag |-> 37510, type |-> UNDEFINED8, count |-> 10,
       payload |-> <<65, 83, 67, 73, 73, 0, 0, 0, 72, 105>>],
      [tag |-> 37510, type |-> UNDEFINED8, count |-> 8,
       payload |-> <<65, 83, 67, 73, 73, 0, 0, 0>>],
      [tag |-> 37510, type |-> UNDEFINED8, count |-> 4, payload |-> <<65, 83, 67, 73>>],
      [tag |-> 37510, type |-> UINT8, count |-> 10,
       payload |-> <<65, 83, 67, 73, 73, 0, 0, 0, 72, 105>>],
      [tag |-> 40961, type |-> UINT16, count |-> 1, payload |-> <<0, 1>>] }

\* Exif IFDs of up to 2 entries
SubIfds ==
    { <<>> } \cup { <<e>> : e \in SubIfdPool }
    \cup { <<e1, e2>> : e1 \in SubIfdPool, e2 \in SubIfdPool }

\* IFD0 with a pointer to the Exif IFD, alone, after Make and before it
PointingIfd0s ==
    { << ExifPointer(0, FALSE) >>,
      << FillerEntry(2), ExifPointer(0, FALSE) >>,
      << ExifPointer(0, FALSE), FillerEntry(2) >> }

\* IFD0 without a usable pointer: no entries, no 0x8769 entry, one of type
\* UINT16, one of count 2, one of type UINT16 before a well-formed one
PointlessIfd0s ==
    { <<>>,
      << FillerEntry(2) >>,
      << [tag |-> ExifIFD, type |-> UINT16, count |-> 1, payload |-> <<0, 26>>] >>,
      << [tag |-> ExifIFD, type |-> UINT32, count |-> 2,
          payload |-> <<0, 0, 0, 38, 0, 0, 0, 38>>] >>,
      << [tag |-> ExifIFD, type |-> UINT16, count |-> 1, payload |-> <<0, 38>>],
         ExifPointer(0, FALSE) >> }

\* The entries with every UINT32 pointer of count 1 set to at
PointTo(entries, at, littleEndian) ==
    [j \in 1..Len(entries) |->
        IF entries[j].tag = ExifIFD /\ entries[j].type = UINT32 /\ entries[j].count = 1
        THEN ExifPointer(at, littleEndian)
        ELSE entries[j]]

\* A TIFF of the one IFD ifd0, followed by the Exif IFD sub, to which the
\* pointers of ifd0 point
ExifWire(littleEndian, ifd0, sub) ==
    WireTiff(littleEndian,
             << PointTo(ifd0, Len(WireTiff(littleEndian, <<ifd0>>)), littleEndian) >>)
    \o WireIfdAt(littleEndian, sub, Len(WireTiff(littleEndian, <<ifd0>>)))

\* size, 'Exif', 2 null bytes and the TIFF, as a camera frames it
ExifFrame(tiff) == BytesOf16(Len(tiff) + 8, FALSE) \o ExifHeader \o tiff

\* Frames of a TIFF without an IFD, of TIFFs whose IFD0 has no usable
\* pointer, and of TIFFs with every Exif IFD of SubIfds
PointerFrames ==
    { ExifFrame(ByteOrderMark(le) \o BytesOf32(0, le)) : le \in BOOLEAN }
    \cup { ExifFrame(ExifWire(le, ifd0, << [tag |-> 36864, type |-> UNDEFINED8, count |-> 4,
                                          payload |-> <<48, 50, 51, 48>>] >>)) :
             le \in BOOLEAN, ifd0 \in PointlessIfd0s }
    \cup { ExifFrame(ExifWire(le, ifd0, sub)) :
             le \in BOOLEAN, ifd0 \in PointingIfd0s, sub \in SubIfds }

ExifInputs == UNION { Damaged(d) : d \in ExifFrames } \cup PointerFrames

----------------------------------------------------------------------------
(* The Jpg objects a program starts from: decodeJpg of a file.             *)

MaxCalls == 2

App1(payload) == <<255, 225>> \o payload

JpgFiles ==
    LET app0 == Framed(224, <<74, 70, 73, 70, 0>>)
        scan == Framed(218, <<1>>) \o <<18, 255, 0, 52>>
    IN  { SOI \o app0 \o scan \o EOI,
          SOI \o app0 \o App1(CameraExif) \o scan \o EOI,
          SOI \o App1(Xmp) \o scan \o EOI,
          SOI \o App1(BareExif) \o scan \o EOI,
          SOI \o App1(CameraExif) \o App1(Xmp) \o EOI,
          SOI \o App1(Xmp) \o App1(CameraExif) \o EOI }

JpgObjects == { decodeJpg(file).val : file \in JpgFiles }

----------------------------------------------------------------------------
(* Inputs of the PNG run: the signature and a stream of chunks.  The CRC   *)
(* of every chunk is written out, as a PNG writer stored it.               *)

MaxChunks == 3

\* length 13, 'IHDR', 1 x 1 pixels of 8-bit RGBA, CRC
IhdrChunk ==
    <<0, 0, 0, 13, 73, 72, 68, 82, 0, 0, 0, 1, 0, 0, 0, 1, 8, 6, 0, 0, 0, 31, 21, 196, 137>>

\* length 10, 'IDAT', a zlib stream, CRC
IdatChunk ==
    <<0, 0, 0, 10, 73, 68, 65, 84, 120, 156, 99, 0, 1, 0, 0, 5, 0, 1, 13, 10, 45, 180>>

\* length 0, 'IEND', CRC
IendChunk == <<0, 0, 0, 0, 73, 69, 78, 68, 174, 66, 96, 130>>

\* 'tEXt' chunks: a = x, ab = y, a = z, b = e-acute, and one without a null
TextAX == <<0, 0, 0, 3, 116, 69, 88, 116, 97, 0, 120, 33, 43, 91, 65>>
TextABY == <<0, 0, 0, 4, 116, 69, 88, 116, 97, 98, 0, 121, 86, 148, 144, 248>>
TextAZ == <<0, 0, 0, 3, 116, 69, 88, 116, 97, 0, 122, 207, 37, 58, 109>>
TextBE == <<0, 0, 0, 3, 116, 69, 88, 116, 98, 0, 233, 164, 101, 70, 202>>
TextNoNull == <<0, 0, 0, 1, 116, 69, 88, 116, 97, 117, 243, 139, 41>>

\* length 3, 'zTXt', a, null, compression method 0, CRC
ZtxtChunk == <<0, 0, 0, 3, 122, 84, 88, 116, 97, 0, 0, 231, 64, 8, 44>>

\* length 0, a type whose first byte is not ASCII, CRC of the 4 type bytes
HighTypeChunk == <<0, 0, 0, 0, 255, 69, 88, 116, 172, 26, 244, 191>>

PngChunks == {IhdrChunk, IdatChunk, IendChunk, TextAX, TextABY, TextAZ, ZtxtChunk}

\* The concatenations of at most n chunks
RECURSIVE ChunkStreams(_)
ChunkStreams(n) ==
    IF n = 0 THEN { <<>> }
    ELSE { <<>> } \cup { c \o rest : c \in PngChunks, rest \in ChunkStreams(n - 1) }

\* Signature, then complete chunks with 4 ASCII type bytes and the right CRC
WellFormedPngs == { HEADER \o stream : stream \in ChunkStreams(MaxChunks) }

\* d with the last byte of its last CRC changed, and d cut short
DamagedPng(d) ==
    { [d EXCEPT ![Len(d)] = (d[Len(d)] + 1) % 256], SubSeq(d, 1, Len(d) - 1) }

PngInputs ==
    WellFormedPngs
    \cup UNION { DamagedPng(HEADER \o stream) : stream \in ChunkStreams(1) }
    \cup { HEADER \o HighTypeChunk, HEADER \o IhdrChunk \o HighTypeChunk \o IendChunk }

----------------------------------------------------------------------------
(* The Png objects a program starts from, and what it gives to setText.    *)

MaxTextCalls == 2

\* The PngChunk of a chunk of a file: its 4 ASCII type bytes as a string, and
\* its data
ChunkOf(bytes) ==
    [type |-> SubSeq(bytes, 5, 8), data |-> SubSeq(bytes, 9, Len(bytes) - 4)]

\* The Png objects of eight files: one with the signature alone, one with
\* the IHDR chunk alone, one with no tEXt chunk, and files with tEXt chunks of
\* the keys 'a', 'ab' and 'b', of the key 'a' twice, and without a null
PngObjects ==
    { [chunks |-> << >>],
      [chunks |-> <<ChunkOf(IhdrChunk)>>],
      [chunks |-> <<ChunkOf(IhdrChunk), ChunkOf(IendChunk)>>],
      [chunks |-> <<ChunkOf(IhdrChunk), ChunkOf(TextAX), ChunkOf(IendChunk)>>],
      [chunks |-> <<ChunkOf(IhdrChunk), ChunkOf(TextABY), ChunkOf(IendChunk)>>],
      [chunks |-> <<ChunkOf(IhdrChunk), ChunkOf(TextABY), ChunkOf(TextBE),
                    ChunkOf(TextAX), ChunkOf(IendChunk)>>],
      [chunks |-> <<ChunkOf(IhdrChunk), ChunkOf(TextAX), ChunkOf(TextAZ),
                    ChunkOf(IendChunk)>>],
      [chunks |-> <<ChunkOf(IhdrChunk), ChunkOf(ZtxtChunk), ChunkOf(TextNoNull),
                    ChunkOf(IendChunk)>>] }

\* 'a', 'ab', 'b'
TextKeys == { <<97>>, <<97, 98>>, <<98>> }

\* '', 'x', e-acute, 'Hi', 'x' null 'y', and U+0141, which is not Latin-1
TextValues == { <<>>, <<120>>, <<233>>, <<72, 105>>, <<120, 0, 121>>, <<321>> }

----------------------------------------------------------------------------
(* The runs.  Each specification drives one part of the library and leaves *)
(* the variables of the others idle.                                       *)

Idle == [ok |-> FALSE, idle |-> TRUE]

\* No IFD walk is in progress
WalkIdle == walkPtr = 0 /\ walkIfds = <<>>

\* No caller-built Tiff is held
NoTiff == [ifds |-> <<>>, littleEndian |-> FALSE]

TiffIdle ==
    /\ tiffPc = "idle" /\ tiffData = <<>>
    /\ tiffDecoded = Idle /\ tiffEncoded = Idle /\ tiffAgain = Idle
    /\ tiffReencoded = Idle
    /\ WalkIdle /\ tiffObj = NoTiff

JpgIdle ==
    /\ jpgPc = "idle" /\ jpgData = <<>>
    /\ jpgDecoded = Idle /\ jpgEncoded = Idle

ExifIdle == exifPc = "idle" /\ exifData = <<>> /\ exifDecoded = Idle

ObjIdle ==
    /\ jpgObj = [segments |-> <<>>]
    /\ exifCall = [op |-> "idle"]
    /\ exifCalls = 0

PngIdle ==
    /\ pngPc = "idle" /\ pngData = <<>>
    /\ pngDecoded = Idle /\ pngEncoded = Idle

TextIdle ==
    /\ pngStart = [chunks |-> <<>>]
    /\ pngObj = [chunks |-> <<>>]
    /\ textCall = [op |-> "idle"]
    /\ textCalls = 0
    /\ textSet = {}

(* The TIFF run: decodeTiff of a file, encodeTiff of the result, and       *)
(* decodeTiff of the encoder's output.                                     *)

TiffInit ==
    /\ tiffPc = "input"
    /\ tiffData \in TiffInputs
    /\ tiffDecoded = Idle
    /\ tiffEncoded = Idle
    /\ tiffAgain = Idle
    /\ tiffReencoded = Idle
    /\ WalkIdle /\ tiffObj = NoTiff
    /\ JpgIdle /\ ExifIdle /\ ObjIdle /\ PngIdle /\ TextIdle

TiffDecode ==
    /\ tiffPc = "input"
    /\ tiffDecoded' = decodeTiff(tiffData)
    /\ tiffPc' = "decoded"
    /\ UNCHANGED <<tiffData, tiffEncoded, tiffAgain,
                 walkPtr, walkIfds, tiffObj,
                 tiffReencoded, jpgVars, exifVars, objVars, pngVars, textVars>>

TiffEncode ==
    /\ tiffPc = "decoded"
    /\ tiffDecoded.ok
    /\ tiffEncoded' = encodeTiff(tiffDecoded.val)
    /\ tiffPc' = "encoded"
    /\ UNCHANGED <<tiffData, tiffDecoded, tiffAgain,
                 walkPtr, walkIfds, tiffObj,
                 tiffReencoded, jpgVars, exifVars, objVars, pngVars, textVars>>

TiffRedecode ==
    /\ tiffPc = "encoded"
    /\ tiffEncoded.ok
    /\ tiffAgain' = decodeTiff(tiffEncoded.val)
    /\ tiffPc' = "redecoded"
    /\ UNCHANGED <<tiffData, tiffDecoded, tiffEncoded,
                 walkPtr, walkIfds, tiffObj,
                 tiffReencoded, jpgVars, exifVars, objVars, pngVars, textVars>>

TiffNext == TiffDecode \/ TiffEncode \/ TiffRedecode

SpecTiff == TiffInit /\ [][TiffNext]_vars

(* A caller builds a Tiff, encodes it with encodeTiff, decodes the output   *)
(* with decodeTiff and encodes what it got.                                *)

EncInit ==
    /\ tiffPc = "built"
    /\ tiffObj \in TiffObjects
    /\ tiffData = <<>>
    /\ tiffDecoded = Idle
    /\ tiffEncoded = Idle
    /\ tiffAgain = Idle
    /\ tiffReencoded = Idle
    /\ WalkIdle
    /\ JpgIdle /\ ExifIdle /\ ObjIdle /\ PngIdle /\ TextIdle

EncodeObj ==
    /\ tiffPc = "built"
    /\ tiffEncoded' = encodeTiff(tiffObj)
    /\ tiffPc' = "encoded"
    /\ UNCHANGED <<tiffData, tiffDecoded, tiffAgain,
                   walkPtr, walkIfds, tiffObj,
                   tiffReencoded, jpgVars, exifVars, objVars, pngVars, textVars>>

\* encodeTiff of what decodeTiff made of the encoder's output
TiffReencode ==
    /\ tiffPc = "redecoded"
    /\ tiffAgain.ok
    /\ tiffReencoded' = encodeTiff(tiffAgain.val)
    /\ tiffPc' = "reencoded"
    /\ UNCHANGED <<tiffData, tiffDecoded, tiffEncoded, tiffAgain,
                   walkPtr, walkIfds, tiffObj,
                   jpgVars, exifVars, objVars, pngVars, textVars>>

EncNext == EncodeObj \/ TiffRedecode \/ TiffReencode

SpecEnc == EncInit /\ [][EncNext]_vars

(* decodeTiff step by step: one step for the header, one for every turn of *)
(* readAllIfds' while loop, one for the return.                            *)

\* ifds.push(ifd).  The list kept here stops growing once it holds more IFDs
\* than the buffer has bytes: the walk is in a cycle by then, and the
\* program's list grows on with every turn.
Pushed(ifds, ifd, data) == IF Len(ifds) > Len(data) THEN ifds ELSE Append(ifds, ifd)

WalkLittleEndian == readEndianness(tiffData) = "little"

\* No call has been made yet
WalkInit ==
    /\ tiffPc = "input"
    /\ tiffData = <<>>
    /\ tiffDecoded = Idle
    /\ tiffEncoded = Idle
    /\ tiffAgain = Idle
    /\ tiffReencoded = Idle
    /\ WalkIdle /\ tiffObj = NoTiff
    /\ JpgIdle /\ ExifIdle /\ ObjIdle /\ PngIdle /\ TextIdle

WalkThrows ==
    /\ tiffDecoded' = Err
    /\ tiffPc' = "decoded"
    /\ UNCHANGED <<walkPtr, walkIfds>>

\* decodeTiff(data) is called: readEndianness, and readAllIfds up to its
\* while loop
WalkStart ==
    /\ tiffPc = "input"
    /\ \E data \in WalkInputs :
        /\ tiffData' = data
        /\ IF readEndianness(data) = "throws" \/ ~InRange(data, 4, 4)
           THEN WalkThrows
           ELSE /\ walkPtr' = getUint32(data, 4, readEndianness(data) = "little")
                /\ tiffPc' = "walking"
                /\ UNCHANGED <<tiffDecoded, walkIfds>>
    /\ UNCHANGED <<tiffEncoded, tiffAgain, tiffObj,
                   tiffReencoded, jpgVars, exifVars, objVars, pngVars, textVars>>

\* One turn of the while loop once decodeIfd has returned ifd
WalkTurn(ifd) ==
    IF ~ifd.ok \/ ~InRange(tiffData, walkPtr + 2 + (Len(ifd.val.entries) * 12), 4)
    THEN WalkThrows
    ELSE /\ walkIfds' = Pushed(walkIfds, ifd.val, tiffData)
         /\ walkPtr' = getUint32(tiffData, walkPtr + 2 + (Len(ifd.val.entries) * 12),
                                 WalkLittleEndian)
         /\ UNCHANGED <<tiffPc, tiffDecoded>>

WalkStep ==
    /\ tiffPc = "walking"
    /\ walkPtr # 0
    /\ WalkTurn(decodeIfd(tiffData, walkPtr, WalkLittleEndian))
    /\ UNCHANGED <<tiffData, tiffEncoded, tiffAgain, tiffObj,
                   tiffReencoded, jpgVars, exifVars, objVars, pngVars, textVars>>

\* The loop's test fails, readAllIfds and decodeTiff return
WalkEnd ==
    /\ tiffPc = "walking"
    /\ walkPtr = 0
    /\ tiffDecoded' = Ok([ifds |-> walkIfds, littleEndian |-> WalkLittleEndian])
    /\ tiffPc' = "decoded"
    /\ UNCHANGED <<tiffData, tiffEncoded, tiffAgain, walkPtr, walkIfds, tiffObj,
                   tiffReencoded, jpgVars, exifVars, objVars, pngVars, textVars>>

WalkNext == WalkStart \/ WalkStep \/ WalkEnd

SpecWalk == WalkInit /\ [][WalkNext]_vars

(* The JPEG run: decodeJpg of a stream and encodeJpg of the result.        *)

JpgInit ==
    /\ jpgPc = "input"
    /\ jpgData \in JpgInputs
    /\ jpgDecoded = Idle
    /\ jpgEncoded = Idle
    /\ TiffIdle /\ ExifIdle /\ ObjIdle /\ PngIdle /\ TextIdle

JpgDecode ==
    /\ jpgPc = "input"
    /\ jpgDecoded' = decodeJpg(jpgData)
    /\ jpgPc' = "decoded"
    /\ UNCHANGED <<jpgData, jpgEncoded, tiffVars, exifVars, objVars, pngVars, textVars>>

JpgEncode ==
    /\ jpgPc = "decoded"
    /\ jpgDecoded.ok
    /\ jpgEncoded' = Ok(encodeJpg(jpgDecoded.val))
    /\ jpgPc' = "encoded"
    /\ UNCHANGED <<jpgData, jpgDecoded, tiffVars, exifVars, objVars, pngVars, textVars>>

JpgNext == JpgDecode \/ JpgEncode

SpecJpg == JpgInit /\ [][JpgNext]_vars

(* The Exif run: decodeExif of an APP1 payload.                            *)

ExifInit ==
    /\ exifPc = "input"
    /\ exifData \in ExifInputs
    /\ exifDecoded = Idle
    /\ TiffIdle /\ JpgIdle /\ ObjIdle /\ PngIdle /\ TextIdle

ExifDecode ==
    /\ exifPc = "input"
    /\ exifDecoded' = decodeExif(exifData)
    /\ exifPc' = "decoded"
    /\ UNCHANGED <<exifData, tiffVars, jpgVars, objVars, pngVars, textVars>>

ExifNext == ExifDecode

SpecExif == ExifInit /\ [][ExifNext]_vars

(* A program that holds a Jpg, calls updateJpgExif on it, and writes it    *)
(* out and reads it back.                                                  *)

Init ==
    /\ jpgObj \in JpgObjects
    /\ exifCall = [op |-> "none"]
    /\ exifCalls = 0
    /\ TiffIdle /\ JpgIdle /\ ExifIdle /\ PngIdle /\ TextIdle

\* updateJpgExif(jpgObj, exif); a call that throws leaves jpgObj as it was
UpdateJpgExif ==
    /\ exifCalls < MaxCalls
    /\ \E exif \in ExifRecords :
         LET result == updateJpgExif(jpgObj, exif)
         IN  /\ jpgObj' = IF result.ok THEN result.val ELSE jpgObj
             /\ exifCall' = [op |-> "updateJpgExif", exif |-> exif,
                             threw |-> ~result.ok, before |-> jpgObj]
    /\ exifCalls' = exifCalls + 1
    /\ UNCHANGED <<tiffVars, jpgVars, exifVars, pngVars, textVars>>

\* jpgObj = decodeJpg(encodeJpg(jpgObj)), as a program that saves and reloads
ReloadJpg ==
    LET redecoded == decodeJpg(encodeJpg(jpgObj))
    IN  /\ jpgObj' = IF redecoded.ok THEN redecoded.val ELSE jpgObj
        /\ exifCall' = [op |-> "reload", threw |-> ~redecoded.ok, before |-> jpgObj]
        /\ UNCHANGED <<exifCalls, tiffVars, jpgVars, exifVars, pngVars, textVars>>

Next == UpdateJpgExif \/ ReloadJpg

Spec == Init /\ [][Next]_vars

(* The PNG run: decodePng of a stream and encodePng of the result.         *)

PngInit ==
    /\ pngPc = "input"
    /\ pngData \in PngInputs
    /\ pngDecoded = Idle
    /\ pngEncoded = Idle
    /\ TiffIdle /\ JpgIdle /\ ExifIdle /\ ObjIdle /\ TextIdle

PngDecode ==
    /\ pngPc = "input"
    /\ pngDecoded' = decodePng(pngData)
    /\ pngPc' = "decoded"
    /\ UNCHANGED <<pngData, pngEncoded, tiffVars, jpgVars, exifVars, objVars, textVars>>

PngEncode ==
    /\ pngPc = "decoded"
    /\ pngDecoded.ok
    /\ pngEncoded' = encodePng(pngDecoded.val)
    /\ pngPc' = "encoded"
    /\ UNCHANGED <<pngData, pngDecoded, tiffVars, jpgVars, exifVars, objVars, textVars>>

PngNext == PngDecode \/ PngEncode

SpecPng == PngInit /\ [][PngNext]_vars

(* A program that holds a Png, calls setText on it, and writes it out and   *)
(* reads it back.                                                          *)

TextInit ==
    /\ pngStart \in PngObjects
    /\ pngObj = pngStart
    /\ textCall = [op |-> "none"]
    /\ textCalls = 0
    /\ textSet = {}
    /\ TiffIdle /\ JpgIdle /\ ExifIdle /\ ObjIdle /\ PngIdle

\* setText(pngObj, key, value)
SetText ==
    /\ textCalls < MaxTextCalls
    /\ \E key \in TextKeys, value \in TextValues :
         /\ pngObj' = setText(pngObj, key, value)
         /\ textCall' = [op |-> "setText", key |-> key, value |-> value,
                         before |-> pngObj]
         /\ textSet' = { pair \in textSet : pair[1] # key } \cup { <<key, value>> }
    /\ textCalls' = textCalls + 1
    /\ UNCHANGED <<pngStart, tiffVars, jpgVars, exifVars, objVars, pngVars>>

\* pngObj = decodePng(encodePng(pngObj)), as a program that saves and reloads
ReloadPng ==
    LET encoded == encodePng(pngObj)
        redecoded == IF encoded.ok THEN decodePng(encoded.val) ELSE Err
    IN  /\ pngObj' = IF redecoded.ok THEN redecoded.val ELSE pngObj
        /\ textCall' = [op |-> "reload", threw |-> ~redecoded.ok, before |-> pngObj]
        /\ UNCHANGED <<pngStart, textCalls, textSet,
                       tiffVars, jpgVars, exifVars, objVars, pngVars>>

TextNext == SetText \/ ReloadPng

SpecText == TextInit /\ [][TextNext]_vars

----------------------------------------------------------------------------
(* The claims of the specification about the TIFF codec, the Exif adapter, *)
(* the JPEG codec and the PNG codec.                                       *)

\* C1 (under SpecTiff): for every Tiff T that decodeTiff returns, encodeTiff(T)
\* returns and decodeTiff of its bytes returns a Tiff equal to T: the same
\* littleEndian flag and the same IFDs, entries, tags, types and values.
C1_TiffRoundTrip ==
    /\ tiffPc \in {"encoded", "redecoded"} => tiffEncoded.ok
    /\ tiffPc = "redecoded" => tiffAgain = tiffDecoded

\* The call the state records is an updateJpgExif that returned on a Jpg with
\* an APP1 segment
UpdatedApp1 ==
    /\ exifCall.op = "updateJpgExif"
    /\ FindApp1(exifCall.before) # 0
    /\ ~exifCall.threw

\* C2 (under Spec): after updateJpgExif(jpg, r) on a Jpg with an APP1 segment,
\* for a record r with no other fields than ExifVersion and UserComment,
\* decodeJpgExif(jpg) returns a record equal to r.
C2_UpdateThenDecode == UpdatedApp1 => decodeJpgExif(jpgObj) = Ok(exifCall.exif)

\* C3 (under Spec): after a sequence of updateJpgExif calls on a Jpg with an
\* APP1 segment, decodeJpgExif(jpg) returns exactly the last record, and so
\* does decodeJpgExif(decodeJpg(encodeJpg(jpg))).
C3_LastRecordSurvives ==
    (UpdatedApp1 /\ exifCalls >= 2) =>
        /\ decodeJpgExif(jpgObj) = Ok(exifCall.exif)
        /\ decodeJpg(encodeJpg(jpgObj)).ok
        /\ decodeJpgExif(decodeJpg(encodeJpg(jpgObj)).val) = Ok(exifCall.exif)

C5_JpgRoundTrip ==
    /\ jpgPc \in {"decoded", "encoded"} => jpgDecoded.ok
    /\ jpgPc = "encoded" => jpgEncoded = Ok(jpgData)

\* C6 (under SpecPng): for every well-formed PNG stream, the signature
\* followed by complete chunks length, type of 4 ASCII bytes, data, and the
\* CRC-32 of type and data, decodePng returns and encodePng of the Png it
\* returns is the stream byte for byte.
C6_PngRoundTrip ==
    pngData \in WellFormedPngs =>
        /\ pngPc \in {"decoded", "encoded"} => pngDecoded.ok
        /\ pngPc = "encoded" => pngEncoded = Ok(pngData)

\* encodePng has returned for a well-formed stream of three chunks or more,
\* one of them a tEXt chunk
C6_Witness ==
    /\ pngPc = "encoded"
    /\ pngData \in WellFormedPngs
    /\ pngEncoded.ok
    /\ Len(pngDecoded.val.chunks) >= 3
    /\ \E i \in 1..Len(pngDecoded.val.chunks) : pngDecoded.val.chunks[i].type = TextType

\* The chunk is a tEXt chunk whose data up to its first null byte is key
Keyed(chunk, key) ==
    /\ chunk.type = TextType
    /\ FirstNull(chunk.data) <= Len(chunk.data)
    /\ SubSeq(chunk.data, 1, FirstNull(chunk.data) - 1) = key

\* The indexes of the chunks of png keyed key
ChunksKeyed(png, key) == { i \in 1..Len(png.chunks) : Keyed(png.chunks[i], key) }

\* The data of the chunk after its first null byte
TextValueOf(chunk) ==
    SubSeq(chunk.data, FirstNull(chunk.data) + 1, Len(chunk.data))

\* The tEXt chunks of png that are not keyed key, in order
OtherTextChunks(png, key) ==
    SelectSeq(png.chunks, LAMBDA chunk : chunk.type = TextType /\ ~Keyed(chunk, key))

\* The last setText left the tEXt chunks of the other keys as they were
OtherKeysUntouched ==
    textCall.op = "setText" =>
        OtherTextChunks(pngObj, textCall.key) = OtherTextChunks(textCall.before, textCall.key)

\* getText of a key that no chunk has returns null
AbsentKeyIsNull ==
    \A key \in TextKeys : ChunksKeyed(pngObj, key) = {} => getText(pngObj, key) = Null

\* C7 as stated (under SpecText): after any sequence of setText calls on a
\* Png, for every key set there is exactly one tEXt chunk of that key, it
\* holds the value of the last setText of the key and getText returns that
\* value; a setText never changes a tEXt chunk of another key, and getText of
\* an absent key returns null.
C7_OneChunkPerKey ==
    /\ \A pair \in textSet :
         /\ Cardinality(ChunksKeyed(pngObj, pair[1])) = 1
         /\ \A i \in ChunksKeyed(pngObj, pair[1]) :
              TextValueOf(pngObj.chunks[i]) = pair[2]
         /\ getText(pngObj, pair[1]) = String(pair[2])
    /\ OtherKeysUntouched
    /\ AbsentKeyIsNull

\* The least member of a set of indexes
FirstOf(indexes) == CHOOSE i \in indexes : \A j \in indexes : i <= j

\* The characters of the value modulo 256: the value when it is Latin-1
Low8(value) == SubSeq([i \in 1..Len(value) |-> value[i] % 256], 1, Len(value))

\* C7 amended (under SpecText): after any sequence of setText calls with
\* Latin-1 keys on a Png, for every key set the first tEXt chunk of that key
\* holds the value of the last setText of the key, each character modulo 256
\* (the value itself when it is Latin-1), and getText returns it; the Png has
\* as many chunks of the key as it started with, and one when it started
\* with none; a setText never changes a tEXt chunk of another key, and
\* getText of an absent key returns null.
C7_FirstChunkPerKey ==
    /\ \A pair \in textSet :
         /\ ChunksKeyed(pngObj, pair[1]) # {}
         /\ TextValueOf(pngObj.chunks[FirstOf(ChunksKeyed(pngObj, pair[1]))]) = Low8(pair[2])
         /\ getText(pngObj, pair[1]) = String(Low8(pair[2]))
         /\ Cardinality(ChunksKeyed(pngObj, pair[1])) =
                IF ChunksKeyed(pngStart, pair[1]) = {} THEN 1
                ELSE Cardinality(ChunksKeyed(pngStart, pair[1]))
    /\ OtherKeysUntouched
    /\ AbsentKeyIsNull

\* On a Png that started with a chunk of key 'ab' and none of key 'a',
\* setText has been called for 'a' twice, with two values
C7_Witness ==
    /\ textCall.op = "setText"
    /\ textCalls = 2
    /\ textCall.key = <<97>>
    /\ ChunksKeyed(pngStart, <<97>>) = {}
    /\ ChunksKeyed(pngStart, <<97, 98>>) # {}
    /\ getText(textCall.before, <<97>>) # Null
    /\ getText(pngObj, <<97>>) # getText(textCall.before, <<97>>)

\* The first two bytes of the payload, as a big-endian u16, are its length
SizeFieldIsLength(data) ==
    Len(data) >= 2 /\ (data[1] * 256) + data[2] = Len(data)

\* Bytes 2..7 of the payload are 'E', 'x', 'i', 'f', 0, 0
HasExifMagic(data) ==
    Len(data) >= 8 /\ SubSeq(data, 3, 8) = <<69, 120, 105, 102, 0, 0>>

\* C8 (under SpecExif): decodeExif throws whenever the size field differs from
\* the payload's length or bytes 2..7 are not 'Exif' 0 0; when both checks
\* pass, its outcome is that of decoding the TIFF bytes after the header.
C8_FrameChecked ==
    exifPc = "decoded" =>
        IF SizeFieldIsLength(exifData) /\ HasExifMagic(exifData)
        THEN exifDecoded = decodeExifTiff(SubSeq(exifData, 9, Len(exifData)))
        ELSE ~exifDecoded.ok

\* decodeExif has been given a payload with the Exif magic and a TIFF that
\* decodes, whose size field is not its length
C8_Witness ==
    /\ exifPc = "decoded"
    /\ HasExifMagic(exifData)
    /\ ~SizeFieldIsLength(exifData)
    /\ decodeExifTiff(SubSeq(exifData, 9, Len(exifData))).ok

\* C9 (under Spec): for every record encodeExif accepts, the data updateJpgExif
\* gives the APP1 segment has length 8 + len(TIFF), its first two bytes are
\* that length as a big-endian u16, bytes 2..7 are 'Exif' 0 0 and the rest is
\* the TIFF.
C9_FrameOfUpdate ==
    UpdatedApp1 =>
        LET data == jpgObj.segments[FindApp1(jpgObj)].data
            encodedTiff == encodeExif(exifCall.exif).val
        IN  /\ Len(data) = 8 + Len(encodedTiff)
            /\ SizeFieldIsLength(data)
            /\ HasExifMagic(data)
            /\ SubSeq(data, 9, Len(data)) = encodedTiff

\* The record has an ExifVersion whose encoded byte length is not 4
VersionLengthNot4(exif) ==
    hasOwn(exif, "ExifVersion") /\ Len(encode(exif.ExifVersion)) # 4

\* C10 as stated (under Spec): encodeExif and updateJpgExif throw whenever the
\* record has an ExifVersion whose encoded byte length is not 4, and
\* updateJpgExif then leaves every segment of the Jpg unchanged.
C10_BadVersionThrows ==
    (exifCall.op = "updateJpgExif" /\ VersionLengthNot4(exifCall.exif)) =>
        /\ ~encodeExif(exifCall.exif).ok
        /\ exifCall.threw
        /\ jpgObj = exifCall.before

\* C10 amended (under Spec): encodeExif throws whenever the record has an
\* ExifVersion whose encoded byte length is not 4; updateJpgExif throws for
\* such a record when the Jpg has an APP1 segment and returns without effect
\* when it has none; either way every segment of the Jpg is unchanged.
C10_BadVersionRejected ==
    (exifCall.op = "updateJpgExif" /\ VersionLengthNot4(exifCall.exif)) =>
        /\ ~encodeExif(exifCall.exif).ok
        /\ exifCall.threw = (FindApp1(exifCall.before) # 0)
        /\ jpgObj = exifCall.before

\* updateJpgExif has thrown for an ExifVersion of 4 code units and 5 bytes on
\* a Jpg whose APP1 segment an earlier call has written
C10_Witness ==
    /\ exifCall.op = "updateJpgExif"
    /\ exifCall.threw
    /\ exifCall.exif = [ExifVersion |-> <<321, 50, 51, 50>>]
    /\ exifCalls = 2
    /\ decodeJpgExif(jpgObj) = Ok([UserComment |-> <<72, 105>>])

\* C11 (under SpecWalk): decodeTiff fails with an error on every file that is
\* cut short, wherever the cut falls: in the header, in the IFD's entry count,
\* in an entry record, in the next-IFD offset, or in an entry's payload of any
\* of the 12 types, ASCII included.
C11_TruncatedFails ==
    (tiffPc = "decoded" /\ tiffData \in TruncatedTiffs) => ~tiffDecoded.ok

\* C15 (under SpecWalk): decodeTiff's walk over the IFDs ends on every finite
\* buffer, also when next-IFD offsets point backwards or in a cycle, and the
\* number of IFDs it collects is bounded by the size of the buffer: an IFD
\* takes at least 6 bytes, so a walk that ends, reading no IFD twice, never
\* holds more IFDs than the buffer has bytes.
C15_WalkBounded == Len(walkIfds) <= Len(tiffData)

\* The entries of all IFDs of a Tiff
TopEntries(tiff) ==
    UNION { { tiff.ifds[i].entries[j] : j \in 1..Len(tiff.ifds[i].entries) } :
              i \in 1..Len(tiff.ifds) }

\* C14 (under SpecWalk): in the Tiff decodeTiff returns, every entry that the
\* file has with tag 0x8769, type UINT32 and count 1 holds as its value the
\* Ifd decoded at the offset the entry gives, not the raw offset.
C14_SubIfdResolved ==
    (tiffPc = "decoded" /\ tiffDecoded.ok) =>
        \A entry \in TopEntries(tiffDecoded.val) :
            (entry.tag = ExifIFD /\ entry.type = UINT32) =>
                \/ ifdEntryPointsToIfd(entry)
                \/ Len(entry.value.elems) # 1

(* Reading the encoder's output back by the layout of a TIFF file: where    *)
(* the records of the top-level IFDs lie and what their fields hold.        *)

\* frontPtr of encodeTiff's second loop as it reaches IFD i
RECURSIVE IfdStart(_, _)
IfdStart(tiff, i) ==
    IF i = 1 THEN 8 ELSE IfdEnd(tiff.ifds[i - 1], IfdStart(tiff, i - 1)) + 4

\* ptr of writeIfd's loop at entry j of top-level IFD i
RecordAt(tiff, i, j) == IfdStart(tiff, i) + 2 + (12 * (j - 1))

\* The positions <<i, j>> of the entries of the top-level IFDs
TopPositions(tiff) ==
    UNION { { <<i, j>> : j \in 1..Len(tiff.ifds[i].entries) } : i \in 1..Len(tiff.ifds) }

EntryAt(tiff, pos) == tiff.ifds[pos[1]].entries[pos[2]]

\* The count field of the record at rec
CountField(buf, rec, littleEndian) == getUint32(buf, rec + 4, littleEndian)

\* The size bytes of a record's payload: in its value field when they fit
\* in 4 bytes, else at the offset the value field holds
PayloadOf(buf, rec, size, littleEndian) ==
    IF size <= 4 THEN Subarray(buf, rec + 8, rec + 8 + size)
    ELSE Subarray(buf, getUint32(buf, rec + 8, littleEndian),
                  getUint32(buf, rec + 8, littleEndian) + size)

\* The entry at pos of the Tiff decoded from the output, Err when decodeTiff
\* threw or the Tiff has no such entry
DecodedAt(again, pos) ==
    IF ~again.ok THEN Err
    ELSE IF pos[1] > Len(again.val.ifds) THEN Err
    ELSE IF pos[2] > Len(again.val.ifds[pos[1]].entries) THEN Err
    ELSE Ok(again.val.ifds[pos[1]].entries[pos[2]])

\* encodeTiff(tiffObj) has returned
Encoded == tiffPc \in {"encoded", "redecoded"} /\ tiffEncoded.ok

\* C12 (under SpecEnc): for every ASCII entry of a top-level IFD, whatever its
\* tag, with the string s as its value, encodeTiff writes len(s) + 1 into the
\* count field and the bytes of s followed by a 0 byte as the payload, and
\* decoding the output returns s for that entry.
C12_AsciiWritten ==
    \A pos \in TopPositions(tiffObj) :
        EntryAt(tiffObj, pos).type = ASCII =>
            /\ Encoded =>
                /\ CountField(tiffEncoded.val, RecordAt(tiffObj, pos[1], pos[2]),
                              tiffObj.littleEndian)
                   = Len(EntryAt(tiffObj, pos).value.elems) + 1
                /\ PayloadOf(tiffEncoded.val, RecordAt(tiffObj, pos[1], pos[2]),
                             Len(EntryAt(tiffObj, pos).value.elems) + 1,
                             tiffObj.littleEndian)
                   = EntryAt(tiffObj, pos).value.elems \o <<0>>
            /\ tiffPc = "redecoded" =>
                DecodedAt(tiffAgain, pos) = Ok(EntryAt(tiffObj, pos))

\* The bytes of a binary32 or binary64 value, held most significant byte
\* first, in the byte order littleEndian
InOrder(bytes, littleEndian) == IF littleEndian THEN Reverse(bytes) ELSE bytes

\* The elements of a value of a multi-byte type, element after element,
\* every number in the byte order littleEndian
OrderedBytes(type, elems, littleEndian) ==
    CASE type \in {UINT16, INT16} ->
            Flatten(elems, 2, LAMBDA v : BytesOf16(v, littleEndian))
      [] type \in {UINT32, INT32} ->
            Flatten(elems, 4, LAMBDA v : BytesOf32(v, littleEndian))
      [] type \in {URATIONAL, SRATIONAL} ->
            Flatten(elems, 8, LAMBDA v : BytesOf32(v[1], littleEndian)
                                         \o BytesOf32(v[2], littleEndian))
      [] type = SINGLE -> Flatten(elems, 4, LAMBDA v : InOrder(v, littleEndian))
      [] type = DOUBLE -> Flatten(elems, 8, LAMBDA v : InOrder(v, littleEndian))

MultiByteTypes == {UINT16, UINT32, URATIONAL, INT16, INT32, SRATIONAL, SINGLE, DOUBLE}

\* The payload of the record at rec, of the size its count field gives
WrittenPayload(buf, rec, type, littleEndian) ==
    PayloadOf(buf, rec, CountField(buf, rec, littleEndian) * getTypeSize(type),
              littleEndian)

\* The fields of the record of entry pos are in the byte order of the Tiff
RecordInOrder(buf, tiff, pos, rec) ==
    /\ Subarray(buf, rec, rec + 2) = BytesOf16(EntryAt(tiff, pos).tag, tiff.littleEndian)
    /\ Subarray(buf, rec + 2, rec + 4)
       = BytesOf16(EntryAt(tiff, pos).type, tiff.littleEndian)
    /\ ifdEntryPointsToIfd(EntryAt(tiff, pos)) =>
           /\ Subarray(buf, rec + 4, rec + 8) = BytesOf32(1, tiff.littleEndian)
           /\ getUint32(buf, rec + 8, tiff.littleEndian) \in 8..Len(buf)
    /\ ~ifdEntryPointsToIfd(EntryAt(tiff, pos)) =>
           /\ CountField(buf, rec, tiff.littleEndian)
              \in { Len(EntryAt(tiff, pos).value.elems),
                    Len(EntryAt(tiff, pos).value.elems) + 1 }
           /\ (CountField(buf, rec, tiff.littleEndian)
               * getTypeSize(EntryAt(tiff, pos).type) > 4)
              => (getUint32(buf, rec + 8, tiff.littleEndian) \in 8..Len(buf))
           /\ (EntryAt(tiff, pos).type \in MultiByteTypes)
              => (SubSeq(WrittenPayload(buf, rec, EntryAt(tiff, pos).type,
                                       tiff.littleEndian),
                        1, Len(EntryAt(tiff, pos).value.elems)
                           * getTypeSize(EntryAt(tiff, pos).type))
                  = OrderedBytes(EntryAt(tiff, pos).type,
                                 EntryAt(tiff, pos).value.elems, tiff.littleEndian))

\* The entry count and the next-IFD offset of top-level IFD i are in the byte
\* order of the Tiff
IfdInOrder(buf, tiff, i) ==
    /\ Subarray(buf, IfdStart(tiff, i), IfdStart(tiff, i) + 2)
       = BytesOf16(Len(tiff.ifds[i].entries), tiff.littleEndian)
    /\ Subarray(buf, IfdStart(tiff, i + 1) - 4, IfdStart(tiff, i + 1))
       = BytesOf32(IF i = Len(tiff.ifds) THEN 0 ELSE IfdStart(tiff, i + 1),
                   tiff.littleEndian)

\* C13 (under SpecEnc): encodeTiff writes every multi-byte field in the byte
\* order littleEndian gives: the entry count of every top-level IFD, its
\* next-IFD offset, and every entry's tag, type, count, offset and elements of
\* the types UINT16, UINT32, URATIONAL, INT16, INT32, SRATIONAL, SINGLE, DOUBLE.
C13_ByteOrder ==
    Encoded =>
        /\ \A i \in 1..Len(tiffObj.ifds) : IfdInOrder(tiffEncoded.val, tiffObj, i)
        /\ \A pos \in TopPositions(tiffObj) :
               RecordInOrder(tiffEncoded.val, tiffObj, pos,
                             RecordAt(tiffObj, pos[1], pos[2]))

\* 8 + the front sizes of all top-level IFDs: where the back region starts
TotalFront(tiff) == IfdStart(tiff, Len(tiff.ifds) + 1)

\* The record at rec holds an offset: it points to a nested IFD or its
\* payload is longer than 4 bytes
HoldsOffset(buf, entry, rec, littleEndian) ==
    \/ ifdEntryPointsToIfd(entry)
    \/ CountField(buf, rec, littleEndian) * getTypeSize(entry.type) > 4

\* C16 (under SpecEnc): for every Tiff whose entries all have a type code of
\* 1..12, whatever their tags (tag 2 included) and with nested Ifd values,
\* encodeTiff does not fail with an out-of-range write, and no spilled
\* payload or nested IFD is written into the front region.
C16_WritesInside ==
    tiffPc \in {"encoded", "redecoded"} =>
        /\ tiffEncoded.ok
        /\ \A pos \in TopPositions(tiffObj) :
               HoldsOffset(tiffEncoded.val, EntryAt(tiffObj, pos),
                           RecordAt(tiffObj, pos[1], pos[2]), tiffObj.littleEndian)
               => getUint32(tiffEncoded.val, RecordAt(tiffObj, pos[1], pos[2]) + 8,
                            tiffObj.littleEndian) >= TotalFront(tiffObj)

\* The bytes writeIfd spilled for the record at rec: count * getTypeSize(type)
\* when that is more than 4, as the record's count field has it
WrittenBack(buf, entry, rec, littleEndian) ==
    IF CountField(buf, rec, littleEndian) * getTypeSize(entry.type) > 4
    THEN CountField(buf, rec, littleEndian) * getTypeSize(entry.type)
    ELSE 0

\* C17 (under SpecEnc): the sizing pass and the write pass agree for every
\* entry: getEncodedIfdSize counts an entry in the back region exactly when
\* writeIfd spills it, and with the same number of bytes; so when encodeTiff
\* returns, the back cursor equals the length of the buffer.
C17_PassesAgree ==
    Encoded =>
        /\ \A pos \in TopPositions(tiffObj) :
               ~ifdEntryPointsToIfd(EntryAt(tiffObj, pos)) =>
                   EntryBackSize(EntryAt(tiffObj, pos))
                   = Ok(WrittenBack(tiffEncoded.val, EntryAt(tiffObj, pos),
                                    RecordAt(tiffObj, pos[1], pos[2]),
                                    tiffObj.littleEndian))
        /\ encodeTiffRun(tiffObj).backPtr = Len(tiffEncoded.val)

\* The positions of the entries of the top-level IFDs in the order in which
\* encodeTiff writes them
TopSequence(tiff) ==
    ConcatAll([i \in 1..Len(tiff.ifds) |->
                  [j \in 1..Len(tiff.ifds[i].entries) |-> <<i, j>>]])

\* The record of entry pos lies where the contiguous records put it
RecordInPlace(buf, tiff, pos, rec) ==
    /\ getUint16(buf, rec, tiff.littleEndian) = EntryAt(tiff, pos).tag
    /\ getUint16(buf, rec + 2, tiff.littleEndian) = EntryAt(tiff, pos).type

\* From the n-th entry of order on, every entry with planned back bytes (a
\* spilled payload with its terminator, or a nested IFD with its payloads)
\* has them at the offset at, the next one right behind it, and the last one
\* ends with the buffer
RECURSIVE PackedFrom(_, _, _, _, _)
PackedFrom(buf, tiff, order, n, at) ==
    IF n > Len(order) THEN at = Len(buf)
    ELSE IF EntryBackSize(EntryAt(tiff, order[n])).val = 0
    THEN PackedFrom(buf, tiff, order, n + 1, at)
    ELSE /\ getUint32(buf, RecordAt(tiff, order[n][1], order[n][2]) + 8,
                      tiff.littleEndian) = at
         /\ PackedFrom(buf, tiff, order, n + 1,
                       at + EntryBackSize(EntryAt(tiff, order[n])).val)

\* C18 (under SpecEnc): in every output of encodeTiff the records of the
\* top-level IFDs lie one after the other from offset 8 to 8 + the sum of the
\* front sizes; every spilled payload and nested IFD lies at or after that
\* offset; and the byte ranges of the spilled payloads and nested IFDs, each
\* of its full planned length, the ASCII terminator included, are disjoint
\* and packed without padding up to the end of the buffer.
C18_Layout ==
    Encoded =>
        /\ \A pos \in TopPositions(tiffObj) :
               RecordInPlace(tiffEncoded.val, tiffObj, pos,
                             RecordAt(tiffObj, pos[1], pos[2]))
        /\ Len(tiffEncoded.val) >= TotalFront(tiffObj)
        /\ PackedFrom(tiffEncoded.val, tiffObj, TopSequence(tiffObj), 1,
                      TotalFront(tiffObj))

\* The offsets visited by following the next-IFD offsets of a file from the
\* offset at, for at most fuel IFDs; -1 stands for an offset outside the file
RECURSIVE ChainFrom(_, _, _, _)
ChainFrom(buf, littleEndian, at, fuel) ==
    IF at = 0 \/ fuel = 0 THEN <<>>
    ELSE IF ~InRange(buf, at, 2) THEN <<-1>>
    ELSE IF ~InRange(buf, at + 2 + (12 * getUint16(buf, at, littleEndian)), 4) THEN <<-1>>
    ELSE <<at>> \o ChainFrom(buf, littleEndian,
                             getUint32(buf, at + 2 + (12 * getUint16(buf, at, littleEndian)),
                                       littleEndian),
                             fuel - 1)

\* The chain of IFDs of a file, from the offset in its header
ChainOf(buf, littleEndian) ==
    ChainFrom(buf, littleEndian, getUint32(buf, 4, littleEndian), Len(buf))

RECURSIVE BackBefore(_, _, _)
BackBefore(tiff, order, n) ==
    IF n = 1 THEN 0
    ELSE BackBefore(tiff, order, n - 1) + EntryBackSize(EntryAt(tiff, order[n - 1])).val

\* The records of the IFD child start at the offset at, and the offsets its
\* records hold lie behind its front
ChildInPlace(buf, child, at, littleEndian) ==
    /\ getUint16(buf, at, littleEndian) = Len(child.entries)
    /\ \A j \in 1..Len(child.entries) :
        /\ getUint16(buf, at + 2 + (12 * (j - 1)), littleEndian) = child.entries[j].tag
        /\ getUint16(buf, at + 4 + (12 * (j - 1)), littleEndian) = child.entries[j].type
        /\ HoldsOffset(buf, child.entries[j], at + 2 + (12 * (j - 1)), littleEndian)
           => getUint32(buf, at + 10 + (12 * (j - 1)), littleEndian)
              >= at + 6 + (12 * Len(child.entries))

\* C20 (under SpecEnc): for an entry of a top-level IFD whose value is a
\* nested Ifd, encodeTiff writes the count 1 and, as the offset, the back
\* cursor of that moment (every entry before it has spilled what was planned
\* for it); the child's records start there and its spilled payloads follow
\* its front; the back cursor advances by the child's front + back, so that
\* the later payloads are packed behind it; and decodeIfd at that offset
\* returns the child's entries in order with equal tag, type and value.
C20_NestedIfd ==
    Encoded =>
        \A n \in 1..Len(TopSequence(tiffObj)) :
            ifdEntryPointsToIfd(EntryAt(tiffObj, TopSequence(tiffObj)[n])) =>
                /\ CountField(tiffEncoded.val,
                              RecordAt(tiffObj, TopSequence(tiffObj)[n][1],
                                       TopSequence(tiffObj)[n][2]),
                              tiffObj.littleEndian) = 1
                /\ ChildInPlace(tiffEncoded.val,
                                EntryAt(tiffObj, TopSequence(tiffObj)[n]).value,
                                TotalFront(tiffObj)
                                + BackBefore(tiffObj, TopSequence(tiffObj), n),
                                tiffObj.littleEndian)
                /\ PackedFrom(tiffEncoded.val, tiffObj, TopSequence(tiffObj), n,
                              TotalFront(tiffObj)
                              + BackBefore(tiffObj, TopSequence(tiffObj), n))
                /\ decodeIfd(tiffEncoded.val,
                             TotalFront(tiffObj)
                             + BackBefore(tiffObj, TopSequence(tiffObj), n),
                             tiffObj.littleEndian)
                   = Ok(EntryAt(tiffObj, TopSequence(tiffObj)[n]).value)

----------------------------------------------------------------------------
\* C21: encoding what decodeTiff made of the encoder's own output gives the
\* same bytes again: encodeTiff(decodeTiff(encodeTiff(T))) = encodeTiff(T)
\* for every Tiff T that encodeTiff accepts.
C21_ReencodeExact ==
    tiffPc = "reencoded" => tiffReencoded = tiffEncoded

----------------------------------------------------------------------------
\* The count an entry has on the wire: 1 for a nested IFD, the length of the
\* string plus its terminator for ASCII, else the number of elements
OnWireCount(entry) ==
    IF ifdEntryPointsToIfd(entry) THEN 1
    ELSE IF entry.type = ASCII THEN Len(entry.value.elems) + 1
    ELSE Len(entry.value.elems)

\* C22 (under SpecEnc): comparing the tag with the ASCII code changes the
\* written count only of entries whose tag is 2: for every entry of a
\* top-level IFD with another tag, of any type, the count field encodeTiff
\* writes is the on-wire count of the entry.
C22_OnlyTagTwo ==
    Encoded =>
        \A pos \in TopPositions(tiffObj) :
            EntryAt(tiffObj, pos).tag # 2 =>
                CountField(tiffEncoded.val, RecordAt(tiffObj, pos[1], pos[2]),
                           tiffObj.littleEndian)
                = OnWireCount(EntryAt(tiffObj, pos))

----------------------------------------------------------------------------
\* C23 (under Spec): updateJpgExif on a Jpg with an APP1 segment changes only
\* the data of the first segment of type 0xE1: the number of segments, their
\* order, the type of every segment and the data of every other segment,
\* later APP1 segments included, are as before the call.
C23_OnlyFirstApp1 ==
    (exifCall.op = "updateJpgExif" /\ FindApp1(exifCall.before) # 0) =>
        /\ Len(jpgObj.segments) = Len(exifCall.before.segments)
        /\ \A i \in 1..Len(exifCall.before.segments) :
            /\ jpgObj.segments[i].type = exifCall.before.segments[i].type
            /\ i # FindApp1(exifCall.before) =>
                jpgObj.segments[i].data = exifCall.before.segments[i].data

\* updateJpgExif has given new data to the first of two APP1 segments
C23_Witness ==
    /\ UpdatedApp1
    /\ \E i \in 1..Len(exifCall.before.segments) :
        /\ i > FindApp1(exifCall.before)
        /\ exifCall.before.segments[i].type = 225
    /\ jpgObj.segments[FindApp1(exifCall.before)].data
       # exifCall.before.segments[FindApp1(exifCall.before)].data

----------------------------------------------------------------------------
\* The segment is an APP1 segment whose data is framed size | 'Exif' 0 0 | TIFF
ExifBearing(segment) == segment.type = 225 /\ checkHeader(segment.data)

\* The index of the first Exif-bearing segment of the Jpg, 0 if it has none
FirstExif(jpg) ==
    LET found == { i \in 1..Len(jpg.segments) : ExifBearing(jpg.segments[i]) }
    IN  IF found = {} THEN 0 ELSE CHOOSE i \in found : \A j \in found : i <= j

\* C24 (under Spec): when the segment list of a Jpg holds an Exif-bearing APP1
\* segment, decodeJpgExif reads that segment and updateJpgExif replaces the
\* data of that segment, also when an APP1 segment without Exif (XMP) comes
\* before it in the list.
C24_ExifSegmentFound ==
    /\ FirstExif(jpgObj) # 0 =>
        decodeJpgExif(jpgObj) = decodeExif(jpgObj.segments[FirstExif(jpgObj)].data)
    /\ (exifCall.op = "updateJpgExif" /\ ~exifCall.threw
        /\ FirstExif(exifCall.before) # 0) =>
            jpgObj.segments[FirstExif(exifCall.before)].data
            = ExifData(encodeExif(exifCall.exif).val)

----------------------------------------------------------------------------
\* The first entry of IFD0 with tag 0x8769, as a set of at most one entry
\* (none when the Tiff has no IFD)
FirstPointers(tiff) ==
    IF Len(tiff.ifds) = 0 THEN {}
    ELSE { tiff.ifds[1].entries[i] : i \in
             { i \in 1..Len(tiff.ifds[1].entries) :
                 /\ tiff.ifds[1].entries[i].tag = 34665
                 /\ \A j \in 1..(i - 1) : tiff.ifds[1].entries[j].tag # 34665 } }

\* The pointer is well formed: UINT32 with count 1
WellFormedPointer(entry) == entry.type = UINT32 /\ Len(entry.value.elems) = 1

\* The entries of an Exif IFD that give ExifVersion and UserComment
VersionEntries(ifd) ==
    { i \in 1..Len(ifd.entries) :
        /\ ifd.entries[i].tag = 36864
        /\ ifd.entries[i].type = UNDEFINED8
        /\ Len(ifd.entries[i].value.elems) = 4 }

CommentEntries(ifd) ==
    { i \in 1..Len(ifd.entries) :
        ifd.entries[i].tag = 37510 /\ ifd.entries[i].type = UNDEFINED8 }

\* The record has the fields of the Exif IFD and no others
RecordOfIfd(exif, ifd) ==
    /\ DOMAIN exif \subseteq {"ExifVersion", "UserComment"}
    /\ hasOwn(exif, "ExifVersion") <=> VersionEntries(ifd) # {}
    /\ hasOwn(exif, "UserComment") <=> CommentEntries(ifd) # {}
    /\ hasOwn(exif, "ExifVersion") =>
        \E i \in VersionEntries(ifd) :
            exif.ExifVersion = decode(ifd.entries[i].value.elems)
    /\ hasOwn(exif, "UserComment") =>
        \E i \in CommentEntries(ifd) :
            exif.UserComment
            = decode(SubSeq(ifd.entries[i].value.elems, 9,
                            Len(ifd.entries[i].value.elems)))

\* What decodeExif returns for a TIFF that decodeTiff has decoded
ExifOfTiff(result, tiffView, tiff) ==
    IF \A entry \in FirstPointers(tiff) : ~WellFormedPointer(entry)
    THEN result = Ok(EmptyExif)
    ELSE \A entry \in FirstPointers(tiff) :
            decodeIfd(tiffView, entry.value.elems[1], tiff.littleEndian).ok =>
                /\ result.ok
                /\ RecordOfIfd(result.val,
                               decodeIfd(tiffView, entry.value.elems[1],
                                         tiff.littleEndian).val)

\* C25 (under SpecExif): decodeExif returns the empty record when the TIFF has
\* no IFD or the first entry of IFD0 with tag 0x8769 is absent, is not UINT32
\* or has a count other than 1; otherwise the record has ExifVersion exactly
\* when the Exif IFD has an entry (0x9000, UNDEFINED8, count 4), UserComment
\* exactly when it has an entry (0x9286, UNDEFINED8), with the value taken
\* from byte 8 on, and no other field: every other entry of IFD0 and of the
\* Exif IFD is ignored.
C25_ExifFields ==
    (exifPc = "decoded" /\ checkHeader(exifData)
     /\ decodeTiff(SubSeq(exifData, 9, Len(exifData))).ok) =>
        ExifOfTiff(exifDecoded, SubSeq(exifData, 9, Len(exifData)),
                   decodeTiff(SubSeq(exifData, 9, Len(exifData))).val)

\* decodeExif has returned a record with a UserComment for a TIFF whose IFD0
\* has an entry besides the pointer and whose Exif IFD has an entry that
\* gives no field
C25_Witness ==
    /\ exifPc = "decoded"
    /\ exifDecoded.ok
    /\ hasOwn(exifDecoded.val, "UserComment")
    /\ ~hasOwn(exifDecoded.val, "ExifVersion")
    /\ LET tiffView == SubSeq(exifData, 9, Len(exifData))
       IN  /\ decodeTiff(tiffView).ok
           /\ Len(decodeTiff(tiffView).val.ifds[1].entries) = 2
           /\ \E entry \in FirstPointers(decodeTiff(tiffView).val) :
                /\ WellFormedPointer(entry)
                /\ Len(decodeIfd(tiffView, entry.value.elems[1],
                                 decodeTiff(tiffView).val.littleEndian).val.entries) = 2

----------------------------------------------------------------------------
\* The offset in the stream of the marker of the k-th segment decodeJpg
\* returned: every segment takes its 2 marker bytes and its data
RECURSIVE SegmentStart(_, _)
SegmentStart(segments, k) ==
    IF k = 1 THEN 0
    ELSE SegmentStart(segments, k - 1) + 2 + Len(segments[k - 1].data)

\* The positions p from offset from on where byte p is 0xFF and byte p + 1 is
\* neither 0x00 nor in 0xD0..0xD7
MarkersFrom(data, from) ==
    { p \in from..(Len(data) - 2) :
        data[p + 1] = 255 /\ data[p + 2] \notin ({0} \cup (208..215)) }

\* The SOS segment that starts at offset start ends before the marker at p,
\* where the next segment starts
ScanEndsAt(data, segments, k, start, p) ==
    /\ segments[k].data = SubSeq(data, start + 3, p)
    /\ k < Len(segments)
    /\ SegmentStart(segments, k + 1) = p
    /\ segments[k + 1].type = data[p + 2]

----------------------------------------------------------------------------
\* The 4 bytes on the wire of component c (1 the numerator, 2 the
\* denominator) of element i of an SRATIONAL payload, most significant first
WireComponent(payload, i, c, littleEndian) ==
    IF littleEndian
    THEN Reverse(SubSeq(payload, (8 * (i - 1)) + (4 * (c - 1)) + 1,
                        (8 * (i - 1)) + (4 * c)))
    ELSE SubSeq(payload, (8 * (i - 1)) + (4 * (c - 1)) + 1, (8 * (i - 1)) + (4 * c))

\* The number below 2^31 that the low 31 bits of 4 bytes hold
Low31(bytes) ==
    ((bytes[1] % 128) * 16777216) + (bytes[2] * 65536) + (bytes[3] * 256) + bytes[4]

\* The two's-complement number of 4 bytes: the low 31 bits, less 2^31 when
\* the high bit is set
TwosComplement(bytes) ==
    IF bytes[1] >= 128 THEN (Low31(bytes) - 2147483647) - 1 ELSE Low31(bytes)

\* C27 (under SpecEnc): an SRATIONAL numerator or denominator whose 32 bits on
\* the wire have the high bit set is decoded as the negative two's-complement
\* number, and decodeTiff of encodeTiff's output returns the signed
\* numerators and denominators the Tiff had, for every pair of i32 numbers
\* and every SRATIONAL entry of a top-level IFD.
C27_SignedRationals ==
    tiffPc = "redecoded" =>
        \A pos \in TopPositions(tiffObj) :
            EntryAt(tiffObj, pos).type = SRATIONAL =>
                /\ DecodedAt(tiffAgain, pos).ok
                /\ DecodedAt(tiffAgain, pos).val.value = EntryAt(tiffObj, pos).value
                /\ \A i \in 1..Len(EntryAt(tiffObj, pos).value.elems) :
                     \A c \in 1..2 :
                        LET bytes ==
                              WireComponent(
                                  PayloadOf(tiffEncoded.val,
                                            RecordAt(tiffObj, pos[1], pos[2]),
                                            8 * Len(EntryAt(tiffObj, pos).value.elems),
                                            tiffObj.littleEndian),
                                  i, c, tiffObj.littleEndian)
                        IN  /\ DecodedAt(tiffAgain, pos).val.value.elems[i][c]
                               = TwosComplement(bytes)
                            /\ bytes[1] >= 128 =>
                                DecodedAt(tiffAgain, pos).val.value.elems[i][c] < 0

----------------------------------------------------------------------------
\* The first 4 bytes of the output are the byte-order mark of the Tiff:
\* 'II' 42 0 for little-endian, 'MM' 0 42 for big-endian
StartsWithMark(buf, littleEndian) ==
    /\ Len(buf) >= 8
    /\ SubSeq(buf, 1, 4) = (IF littleEndian THEN <<73, 73, 42, 0>> ELSE <<77, 77, 0, 42>>)

----------------------------------------------------------------------------
\* C29 (under SpecText): for every Png whose chunk types are 4 ASCII
\* characters, one changed by any sequence of setText calls included,
\* decodePng(encodePng(p)) returns and has the chunks of p, with equal type
\* and data, in the same order; so getText returns for every key what it
\* returned for p.
C29_TextSurvivesReload ==
    textCall.op = "reload" =>
        /\ ~textCall.threw
        /\ Len(pngObj.chunks) = Len(textCall.before.chunks)
        /\ \A i \in 1..Len(textCall.before.chunks) :
            /\ pngObj.chunks[i].type = textCall.before.chunks[i].type
            /\ pngObj.chunks[i].data = textCall.before.chunks[i].data
        /\ \A key \in TextKeys : getText(pngObj, key) = getText(textCall.before, key)

\* A Png has been written out and read back after two setText calls, one of
\* which added a chunk for the key 'a'
C29_Witness ==
    /\ textCall.op = "reload"
    /\ textCalls = 2
    /\ ChunksKeyed(pngStart, <<97>>) = {}
    /\ getText(pngObj, <<97>>) # Null
    /\ Len(pngObj.chunks) > Len(pngStart.chunks)

----------------------------------------------------------------------------
\* What one setText call did to the chunks, when the chunk it adds goes to
\* the 1-based position at: with a chunk of the key, the chunks keep their
\* number, order and types, and all but the first chunk of the key keep their
\* data; with none, one tEXt chunk of the key is at position at and the
\* chunks there were are around it, in their order, as they were
CallFrame(before, after, key, at) ==
    IF findTextSection([chunks |-> before], key) # 0
    THEN /\ Len(after) = Len(before)
         /\ \A i \in 1..Len(before) :
              /\ after[i].type = before[i].type
              /\ (i # findTextSection([chunks |-> before], key)
                    => after[i].data = before[i].data)
    ELSE /\ Len(after) = Len(before) + 1
         /\ at <= Len(after)
         /\ after[at].type = TextType
         /\ Keyed(after[at], key)
         /\ \A i \in 1..Len(before) :
              after[IF i < at THEN i ELSE i + 1] = before[i]

\* The first and the last chunk the Png started with are its first and last
EndsStay ==
    /\ pngObj.chunks # << >>
    /\ pngObj.chunks[1] = pngStart.chunks[1]
    /\ pngObj.chunks[Len(pngObj.chunks)] = pngStart.chunks[Len(pngStart.chunks)]

\* C30 as stated (under SpecText): setText changes no type, data or order of
\* the chunks there were, but the data of the chunk of the key; with no chunk
\* of the key it puts one new tEXt chunk at index 1; on a Png of at least one
\* chunk the first chunk stays first and the last stays last after any
\* sequence of setText calls.
C30_EndsStayFromOneChunk ==
    /\ (textCall.op = "setText"
          => CallFrame(textCall.before.chunks, pngObj.chunks, textCall.key, 2))
    /\ (Len(pngStart.chunks) >= 1 => EndsStay)

\* C30 as the code has it (under SpecText): setText changes no type, data or
\* order of the chunks there were, but the data of the first tEXt chunk of the
\* key; with no chunk of the key it puts one new tEXt chunk at index 1, at
\* index 0 when the Png has no chunk; on a Png of at least two chunks the
\* first chunk stays first and the last stays last after any sequence of
\* setText calls.
C30_EndsStayFromTwoChunks ==
    /\ (textCall.op = "setText"
          => CallFrame(textCall.before.chunks, pngObj.chunks, textCall.key,
                       IF textCall.before.chunks = << >> THEN 1 ELSE 2))
    /\ (Len(pngStart.chunks) >= 2 => EndsStay)

\* Two setText calls have each put a new chunk into a Png that started with
\* IHDR, a tEXt chunk of another key, and IEND
C30_Witness ==
    /\ textCall.op = "setText"
    /\ textCalls = 2
    /\ Len(pngStart.chunks) = 3
    /\ findTextSection(textCall.before, textCall.key) = 0
    /\ Len(pngObj.chunks) = Len(pngStart.chunks) + 2
    /\ pngObj.chunks[2].type = TextType
    /\ pngObj.chunks[3].type = TextType

====
